---- MODULE Spec2Model ----
(***************************************************************************)
(* Model of the data-validation session of ai-excel ("Data Alchemist"):    *)
(* the ValidationService (src/src/lib/validation.ts), the Home page state  *)
(* and its handlers (src/unnamed/part_002) and the DataGrid cell editor    *)
(* (src/src/components/DataGrid.tsx).                                      *)
(*                                                                         *)
(* A JavaScript string is modelled as a tuple of one-character strings,    *)
(* so that split, trim, parseInt and JSON.parse are computed character by  *)
(* character as the engine computes them.  A JavaScript number that may be *)
(* NaN is modelled as <<>> (NaN) or <<n>>.                                 *)
(***************************************************************************)
EXTENDS Integers, Sequences, FiniteSets, TLC

(***************************************************************************)
(* Bounds of the model.                                                    *)
(***************************************************************************)
\* longest field text drawn for the decoding specification
MaxLen == 5
\* most rows of one collection drawn for the validator specification
MaxRows == 3
\* most rows of one uploaded file in the session specification
MaxFileRows == 1
\* most user events of one session
MaxEvents == 3
\* longest required-skills text drawn for the skills specification
MaxSkillLen == 3
\* longest worker skills text drawn for the skills specification
MaxOfferLen == 2
\* longest RequestedTaskIDs text drawn for the requests specification
MaxRequestLen == 4
\* most task rows drawn for the requests specification
MaxTasks == 2
\* most client rows drawn for the kinds specification
MaxKindClients == 2
\* most worker rows and most task rows drawn for the kinds specification
MaxKindRows == 1
\* most headers of an uploaded file in the advisory specification
MaxHeaders == 2
MaxWeightEvents == 2

(***************************************************************************)
(* JavaScript strings.                                                     *)
(***************************************************************************)
WhiteSpace == {" ", "\t", "\n", "\r"}

Digits == {"0", "1", "2", "3", "4", "5", "6", "7", "8", "9"}

HexDigits == Digits \cup {"a", "b", "c", "d", "e", "f", "A", "B", "C", "D", "E", "F"}

DigitVal(c) ==
  CASE c = "0" -> 0 [] c = "1" -> 1 [] c = "2" -> 2 [] c = "3" -> 3
    [] c = "4" -> 4 [] c = "5" -> 5 [] c = "6" -> 6 [] c = "7" -> 7
    [] c = "8" -> 8 [] c = "9" -> 9
    [] c \in {"a", "A"} -> 10 [] c \in {"b", "B"} -> 11
    [] c \in {"c", "C"} -> 12 [] c \in {"d", "D"} -> 13
    [] c \in {"e", "E"} -> 14 [] c \in {"f", "F"} -> 15

\* String.prototype.toLowerCase, one character
LowerChar(c) ==
  CASE c = "A" -> "a" [] c = "B" -> "b" [] c = "C" -> "c" [] c = "D" -> "d"
    [] c = "E" -> "e" [] c = "F" -> "f" [] c = "G" -> "g" [] c = "H" -> "h"
    [] c = "I" -> "i" [] c = "J" -> "j" [] c = "K" -> "k" [] c = "L" -> "l"
    [] c = "M" -> "m" [] c = "N" -> "n" [] c = "O" -> "o" [] c = "P" -> "p"
    [] c = "Q" -> "q" [] c = "R" -> "r" [] c = "S" -> "s" [] c = "T" -> "t"
    [] c = "U" -> "u" [] c = "V" -> "v" [] c = "W" -> "w" [] c = "X" -> "x"
    [] c = "Y" -> "y" [] c = "Z" -> "z" [] OTHER -> c

toLowerCase(s) == [i \in 1..Len(s) |-> LowerChar(s[i])]

\* String.prototype.includes for a one-character needle
includes(s, c) == \E i \in 1..Len(s) : s[i] = c

RECURSIVE TrimStart(_)
TrimStart(s) ==
  IF s # <<>> /\ Head(s) \in WhiteSpace THEN TrimStart(Tail(s)) ELSE s

RECURSIVE TrimEnd(_)
TrimEnd(s) ==
  IF s # <<>> /\ s[Len(s)] \in WhiteSpace
  THEN TrimEnd(SubSeq(s, 1, Len(s) - 1)) ELSE s

\* String.prototype.trim
trim(s) == TrimEnd(TrimStart(s))

\* String.prototype.indexOf for a one-character needle that s includes
indexOf(s, c) == CHOOSE k \in 1..Len(s) : s[k] = c /\ \A j \in 1..(k - 1) : s[j] # c

\* String.prototype.split for a one-character separator: "" gives [""]
RECURSIVE split(_, _)
SplitAt(s, sep, i) == <<SubSeq(s, 1, i - 1)>> \o split(SubSeq(s, i + 1, Len(s)), sep)

split(s, sep) == IF ~includes(s, sep) THEN <<s>> ELSE SplitAt(s, sep, indexOf(s, sep))

\* Array.prototype.map
map(f(_), a) == [i \in 1..Len(a) |-> f(a[i])]

\* the elements of an array
Range(f) == {f[x] : x \in DOMAIN f}

(***************************************************************************)
(* JavaScript numbers: <<>> is NaN, <<n>> the number n.                    *)
(***************************************************************************)
NaN == <<>>

isNaN(x) == x = <<>>

\* the longest prefix of s made of characters of set
RECURSIVE PrefixIn(_, _)
PrefixIn(s, set) ==
  IF s # <<>> /\ Head(s) \in set
  THEN <<Head(s)>> \o PrefixIn(Tail(s), set) ELSE <<>>

\* the value of a digit string in a radix, most significant digit first
RECURSIVE ValueOf(_, _)
ValueOf(ds, radix) ==
  IF ds = <<>> THEN 0
  ELSE ValueOf(SubSeq(ds, 1, Len(ds) - 1), radix) * radix + DigitVal(ds[Len(ds)])

\* the number the digits ds denote in a radix, negated if neg; NaN for no digit
DigitsToNumber(ds, radix, neg) ==
  IF ds = <<>> THEN NaN
  ELSE <<IF neg THEN 0 - ValueOf(ds, radix) ELSE ValueOf(ds, radix)>>

\* parseInt on the text u that follows the white space and the sign
ParseUnsigned(u, neg) ==
  IF Len(u) >= 2 /\ u[1] = "0" /\ u[2] \in {"x", "X"}
  THEN DigitsToNumber(PrefixIn(SubSeq(u, 3, Len(u)), HexDigits), 16, neg)
  ELSE DigitsToNumber(PrefixIn(u, Digits), 10, neg)

\* parseInt on the text t that follows the white space
ParseSigned(t) ==
  IF t # <<>> /\ Head(t) \in {"+", "-"} THEN ParseUnsigned(Tail(t), Head(t) = "-")
  ELSE ParseUnsigned(t, FALSE)

\* parseInt(string) with no radix: leading white space, a sign, 0x for
\* hexadecimal, then the longest digit prefix; anything after it is ignored
parseInt(s) == ParseSigned(TrimStart(s))

\* x < y on numbers: false when either side is NaN
Lt(x, y) == ~isNaN(x) /\ ~isNaN(y) /\ x[1] < y[1]

Gt(x, y) == Lt(y, x)

(***************************************************************************)
(* JSON.parse.  A parsed value keeps what the validators read: its kind,   *)
(* for an integral number its value, for an array its elements.            *)
(***************************************************************************)
JValue(k, n, items) == [k |-> k, n |-> n, items |-> items]

JNull == JValue("null", 0, <<>>)

JFail == [ok |-> FALSE, pos |-> 0, val |-> JNull]

JOk(pos, val) == [ok |-> TRUE, pos |-> pos, val |-> val]

RECURSIVE SkipWs(_, _)
SkipWs(s, i) ==
  IF i <= Len(s) /\ s[i] \in WhiteSpace THEN SkipWs(s, i + 1) ELSE i

\* the first index from i on that holds no digit
RECURSIVE DigitsEnd(_, _)
DigitsEnd(s, i) ==
  IF i <= Len(s) /\ s[i] \in Digits THEN DigitsEnd(s, i + 1) ELSE i

RECURSIVE Pow10(_)
Pow10(k) == IF k <= 0 THEN 1 ELSE 10 * Pow10(k - 1)

\* number: -? (0 | [1-9][0-9]*) (. [0-9]+)? ([eE] [+-]? [0-9]+)?
\* a is the index of the first digit, b the index after the integer part,
\* c the index after the fraction, d the index of the first exponent digit,
\* e the index after the number
IntEnd(s, a) == IF a <= Len(s) /\ s[a] = "0" THEN a + 1 ELSE DigitsEnd(s, a)

HasFraction(s, b) == b <= Len(s) /\ s[b] = "."

FractionEnd(s, b) == IF HasFraction(s, b) THEN DigitsEnd(s, b + 1) ELSE b

HasExponent(s, c) == c <= Len(s) /\ s[c] \in {"e", "E"}

ExponentStart(s, c) ==
  IF c + 1 <= Len(s) /\ s[c + 1] \in {"+", "-"} THEN c + 2 ELSE c + 1

ExponentEnd(s, c) == IF HasExponent(s, c) THEN DigitsEnd(s, ExponentStart(s, c)) ELSE c

Exponent(s, c, e) ==
  IF ~HasExponent(s, c) THEN 0
  ELSE IF c + 1 <= Len(s) /\ s[c + 1] = "-"
    THEN 0 - ValueOf(SubSeq(s, ExponentStart(s, c), e - 1), 10)
  ELSE ValueOf(SubSeq(s, ExponentStart(s, c), e - 1), 10)

\* the number mant * 10^scale, negated if neg, that ends before index e
ScaledNumber(neg, mant, scale, e) ==
  IF scale >= 0
  THEN JOk(e, JValue("int", (IF neg THEN -1 ELSE 1) * mant * Pow10(scale), <<>>))
  ELSE IF mant % Pow10(0 - scale) = 0
  THEN JOk(e, JValue("int", (IF neg THEN -1 ELSE 1) * (mant \div Pow10(0 - scale)), <<>>))
  ELSE JOk(e, JValue("fraction", 0, <<>>))

NumberAt(s, neg, a, b, c, e) ==
  IF \/ b = a
     \/ HasFraction(s, b) /\ c = b + 1
     \/ HasExponent(s, c) /\ e = ExponentStart(s, c)
  THEN JFail
  ELSE ScaledNumber(neg,
                    ValueOf(SubSeq(s, a, b - 1)
                              \o (IF HasFraction(s, b) THEN SubSeq(s, b + 1, c - 1) ELSE <<>>),
                            10),
                    Exponent(s, c, e) - (IF HasFraction(s, b) THEN c - b - 1 ELSE 0),
                    e)

NumberExponent(s, neg, a, b, c) == NumberAt(s, neg, a, b, c, ExponentEnd(s, c))

NumberFraction(s, neg, a, b) == NumberExponent(s, neg, a, b, FractionEnd(s, b))

ParseNumber(s, i) ==
  IF s[i] = "-" THEN NumberFraction(s, TRUE, i + 1, IntEnd(s, i + 1))
  ELSE NumberFraction(s, FALSE, i, IntEnd(s, i))

\* the index after the closing quote of the string whose text starts at i,
\* 0 when the string is not closed or holds a bad escape or control character
RECURSIVE StringEnd(_, _)
StringEnd(s, i) ==
  IF i > Len(s) THEN 0
  ELSE IF s[i] = "\"" THEN i + 1
  ELSE IF s[i] = "\\"
    THEN IF i + 1 <= Len(s) /\ s[i + 1] \in {"\"", "\\", "/", "b", "f", "n", "r", "t"}
         THEN StringEnd(s, i + 2)
         ELSE IF i + 5 <= Len(s) /\ s[i + 1] = "u"
                   /\ \A k \in 2..5 : s[i + k] \in HexDigits
         THEN StringEnd(s, i + 6)
         ELSE 0
  ELSE IF s[i] \in {"\t", "\n", "\r"} THEN 0
  ELSE StringEnd(s, i + 1)

MatchAt(s, i, w) == i + Len(w) - 1 <= Len(s) /\ SubSeq(s, i, i + Len(w) - 1) = w

RECURSIVE ParseValue(_, _)
RECURSIVE ParseElements(_, _, _)
RECURSIVE ParseMembers(_, _)

\* the elements acc have been parsed and j is the index of what follows them
ElementEnd(s, acc, j) ==
  IF j > Len(s) THEN JFail
  ELSE IF s[j] = "," THEN ParseElements(s, SkipWs(s, j + 1), acc)
  ELSE IF s[j] = "]" THEN JOk(j + 1, JValue("array", 0, acc))
  ELSE JFail

\* the parse v of an element after the elements acc
ElementParsed(s, acc, v) ==
  IF ~v.ok THEN JFail ELSE ElementEnd(s, Append(acc, v.val), SkipWs(s, v.pos))

\* i is the first character of an element; acc the elements parsed so far
ParseElements(s, i, acc) == ElementParsed(s, acc, ParseValue(s, i))

\* j is the index of what follows a member
MemberEnd(s, j) ==
  IF j > Len(s) THEN JFail
  ELSE IF s[j] = "," THEN ParseMembers(s, SkipWs(s, j + 1))
  ELSE IF s[j] = "}" THEN JOk(j + 1, JValue("object", 0, <<>>))
  ELSE JFail

\* the parse v of a member's value
MemberParsed(s, v) == IF ~v.ok THEN JFail ELSE MemberEnd(s, SkipWs(s, v.pos))

\* c is the index of what follows a member's key
MemberColon(s, c) ==
  IF c > Len(s) THEN JFail
  ELSE IF s[c] # ":" THEN JFail
  ELSE MemberParsed(s, ParseValue(s, SkipWs(s, c + 1)))

\* k is the index after a member's key, 0 for a bad key
MemberKey(s, k) == IF k = 0 THEN JFail ELSE MemberColon(s, SkipWs(s, k))

\* i is the first character of a member's key
ParseMembers(s, i) ==
  IF i <= Len(s) /\ s[i] = "\"" THEN MemberKey(s, StringEnd(s, i + 1)) ELSE JFail

\* j is the index of what follows "["
ArrayAt(s, j) ==
  IF j <= Len(s) /\ s[j] = "]" THEN JOk(j + 1, JValue("array", 0, <<>>))
  ELSE ParseElements(s, j, <<>>)

\* j is the index of what follows "{"
ObjectAt(s, j) ==
  IF j <= Len(s) /\ s[j] = "}" THEN JOk(j + 1, JValue("object", 0, <<>>))
  ELSE ParseMembers(s, j)

\* k is the index after a string, 0 for a bad string
StringAt(k) == IF k = 0 THEN JFail ELSE JOk(k, JValue("string", 0, <<>>))

\* i is the first character of a value
ParseValue(s, i) ==
  IF i > Len(s) THEN JFail
  ELSE IF s[i] = "[" THEN ArrayAt(s, SkipWs(s, i + 1))
  ELSE IF s[i] = "{" THEN ObjectAt(s, SkipWs(s, i + 1))
  ELSE IF s[i] = "\"" THEN StringAt(StringEnd(s, i + 1))
  ELSE IF s[i] = "-" \/ s[i] \in Digits THEN ParseNumber(s, i)
  ELSE IF MatchAt(s, i, <<"t", "r", "u", "e">>) THEN JOk(i + 4, JValue("true", 0, <<>>))
  ELSE IF MatchAt(s, i, <<"f", "a", "l", "s", "e">>) THEN JOk(i + 5, JValue("false", 0, <<>>))
  ELSE IF MatchAt(s, i, <<"n", "u", "l", "l">>) THEN JOk(i + 4, JNull)
  ELSE JFail

\* the parse r of the value is the whole text but for white space
WholeText(s, r) ==
  IF r.ok /\ SkipWs(s, r.pos) = Len(s) + 1
  THEN [ok |-> TRUE, val |-> r.val]
  ELSE [ok |-> FALSE, val |-> JNull]

\* JSON.parse(text): ok is FALSE where JSON.parse throws a SyntaxError
JSONparse(s) == WholeText(s, ParseValue(s, SkipWs(s, 1)))

isArray(v) == v.k = "array"

\* Number.isInteger
isInteger(v) == v.k = "int"

(***************************************************************************)
(* Field values.  A cell holds a string (every parsed or edited cell) or a *)
(* number (the numeric columns after parseFile, or a value an applied      *)
(* correction carries).                                                    *)
(***************************************************************************)
Str(s) == [t |-> "str", s |-> s, n |-> 0]

Num(n) == [t |-> "num", s |-> <<>>, n |-> n]

\* ToBoolean: "" and 0 are falsy
Truthy(v) == IF v.t = "num" THEN v.n # 0 ELSE v.s # <<>>

DigitChar(d) ==
  CASE d = 0 -> "0" [] d = 1 -> "1" [] d = 2 -> "2" [] d = 3 -> "3" [] d = 4 -> "4"
    [] d = 5 -> "5" [] d = 6 -> "6" [] d = 7 -> "7" [] d = 8 -> "8" [] d = 9 -> "9"

RECURSIVE NatToString(_)
NatToString(n) ==
  IF n < 10 THEN <<DigitChar(n)>>
  ELSE NatToString(n \div 10) \o <<DigitChar(n % 10)>>

\* String(value), also what a template literal interpolates
String(v) ==
  IF v.t = "num"
  THEN (IF v.n < 0 THEN <<"-">> \o NatToString(-v.n) ELSE NatToString(v.n))
  ELSE v.s

\* ToNumber of the digits of a string, all of them of the radix
AllDigitsToNumber(ds, set, radix, neg) ==
  IF ds # <<>> /\ \A i \in 1..Len(ds) : ds[i] \in set
  THEN DigitsToNumber(ds, radix, neg) ELSE NaN

\* ToNumber of a trimmed string
TrimmedToNumber(u) ==
  IF u = <<>> THEN <<0>>
  ELSE IF Len(u) > 2 /\ u[1] = "0" /\ u[2] \in {"x", "X"}
    THEN AllDigitsToNumber(SubSeq(u, 3, Len(u)), HexDigits, 16, FALSE)
  ELSE IF Head(u) \in {"+", "-"} THEN AllDigitsToNumber(Tail(u), Digits, 10, Head(u) = "-")
  ELSE AllDigitsToNumber(u, Digits, 10, FALSE)

\* ToNumber of a string: white space trimmed, "" is 0, an optionally signed
\* run of digits or an unsigned 0x run its value, anything else NaN (the cell
\* texts of the model hold no fraction and no exponent)
StringToNumber(s) == TrimmedToNumber(trim(s))

\* ToNumber of a cell, as the relational operators apply it
ToNumber(v) == IF v.t = "num" THEN <<v.n>> ELSE StringToNumber(v.s)

\* JSON.parse(cell): the argument is converted to a string first
JSONparseCell(v) ==
  IF v.t = "num" THEN [ok |-> TRUE, val |-> JValue("int", v.n, <<>>)]
  ELSE JSONparse(v.s)

\* a method of String.prototype is called on the cell: a TypeError on a number
NotAString(v) == v.t # "str"

(***************************************************************************)
(* Findings (ValidationError).  The message is its fixed text and the      *)
(* interpolated value, if any.                                             *)
(***************************************************************************)
ValidationError(type, text, arg, row, column, entity, severity) ==
  [type |-> type, message |-> [text |-> text, arg |-> arg], row |-> row,
   column |-> column, entity |-> entity, severity |-> severity]

\* the concatenation of a sequence of sequences
RECURSIVE Flatten(_)
Flatten(ss) == IF ss = <<>> THEN <<>> ELSE Head(ss) \o Flatten(Tail(ss))

When(cond, errors) == IF cond THEN errors ELSE <<>>

(***************************************************************************)
(* ValidationService.validateClients                                       *)
(***************************************************************************)
ClientDuplicateId(client, index, clientIds) ==
  When(client.ClientID \in clientIds,
       <<ValidationError("duplicate_id", "Duplicate ClientID: ", String(client.ClientID),
                         index, "ClientID", "clients", "error")>>)

\* a faulty variant of ClientIdsAdd that forgets the identifier: C1 tells the two apart
ClientIdsAdd_forgets(clientIds, client) == clientIds

\* the set takes no empty identifier
ClientIdsAdd_truthyOnly(clientIds, client) ==
  IF Truthy(client.ClientID) THEN clientIds \cup {client.ClientID} ELSE clientIds

\* clientIds.add(client.ClientID)
ClientIdsAdd(clientIds, client) == clientIds \cup {client.ClientID}

ClientRequired(client, index) ==
  When(~Truthy(client.ClientID),
       <<ValidationError("missing_required", "ClientID is required", <<>>,
                         index, "ClientID", "clients", "error")>>)
  \o When(~Truthy(client.ClientName),
       <<ValidationError("missing_required", "ClientName is required", <<>>,
                         index, "ClientName", "clients", "error")>>)

ClientPriorityLevel(client, index) ==
  When(Lt(ToNumber(client.PriorityLevel), <<1>>) \/ Gt(ToNumber(client.PriorityLevel), <<5>>),
       <<ValidationError("out_of_range", "PriorityLevel must be between 1 and 5", <<>>,
                         index, "PriorityLevel", "clients", "error")>>)

\* a faulty variant of ClientRequestedTaskIDs that looks up the first
\* requested identifier only: C13 tells the two apart
ClientRequestedTaskIDs_firstIdOnly(client, index, taskIds) ==
  IF ~Truthy(client.RequestedTaskIDs) THEN <<>>
  ELSE LET requestedIds == map(trim, split(client.RequestedTaskIDs.s, ","))
       IN Flatten(map(LAMBDA taskId :
             When(taskId # <<>> /\ Str(taskId) \notin taskIds,
                  <<ValidationError("unknown_reference", "RequestedTaskID does not exist in tasks: ",
                                    taskId, index, "RequestedTaskIDs", "clients", "error")>>),
             SubSeq(requestedIds, 1, 1)))

\* a faulty variant of ClientRequestedTaskIDs that does not trim the
\* requested identifiers: C15 tells the two apart
ClientRequestedTaskIDs_untrimmed(client, index, taskIds) ==
  IF ~Truthy(client.RequestedTaskIDs) THEN <<>>
  ELSE LET requestedIds == split(client.RequestedTaskIDs.s, ",")
       IN Flatten(map(LAMBDA taskId :
             When(taskId # <<>> /\ Str(taskId) \notin taskIds,
                  <<ValidationError("unknown_reference", "RequestedTaskID does not exist in tasks: ",
                                    taskId, index, "RequestedTaskIDs", "clients", "error")>>),
             requestedIds))

ClientRequestedTaskIDs(client, index, taskIds) ==
  IF ~Truthy(client.RequestedTaskIDs) THEN <<>>
  ELSE LET requestedIds == map(trim, split(client.RequestedTaskIDs.s, ","))
       IN Flatten(map(LAMBDA taskId :
             When(taskId # <<>> /\ Str(taskId) \notin taskIds,
                  <<ValidationError("unknown_reference", "RequestedTaskID does not exist in tasks: ",
                                    taskId, index, "RequestedTaskIDs", "clients", "error")>>),
             requestedIds))

ClientAttributesJSON(client, index) ==
  When(Truthy(client.AttributesJSON) /\ ~JSONparseCell(client.AttributesJSON).ok,
       <<ValidationError("malformed_json", "Invalid JSON in AttributesJSON", <<>>,
                         index, "AttributesJSON", "clients", "error")>>)

\* the findings carry the row's number counted from one
ClientRowErrors_oneBased(client, index, clientIds, taskIds) ==
  ClientDuplicateId(client, index + 1, clientIds)
  \o ClientRequired(client, index + 1)
  \o ClientPriorityLevel(client, index + 1)
  \o ClientRequestedTaskIDs(client, index + 1, taskIds)
  \o ClientAttributesJSON(client, index + 1)

\* the body of the forEach callback, for one row
ClientRowErrors(client, index, clientIds, taskIds) ==
  ClientDuplicateId(client, index, clientIds)
  \o ClientRequired(client, index)
  \o ClientPriorityLevel(client, index)
  \o ClientRequestedTaskIDs(client, index, taskIds)
  \o ClientAttributesJSON(client, index)

\* clients.forEach from row i (one-based) on, clientIds the identifiers seen
RECURSIVE ClientsForEach(_, _, _, _)
ClientsForEach(clients, i, clientIds, taskIds) ==
  IF i > Len(clients) THEN <<>>
  ELSE ClientRowErrors(clients[i], i - 1, clientIds, taskIds)
       \o ClientsForEach(clients, i + 1, ClientIdsAdd(clientIds, clients[i]), taskIds)

validateClients(clients, tasks) ==
  ClientsForEach(clients, 1, {}, {tasks[i].TaskID : i \in 1..Len(tasks)})

(***************************************************************************)
(* ValidationService.validateWorkers                                       *)
(***************************************************************************)
WorkerDuplicateId(worker, index, workerIds) ==
  When(worker.WorkerID \in workerIds,
       <<ValidationError("duplicate_id", "Duplicate WorkerID: ", String(worker.WorkerID),
                         index, "WorkerID", "workers", "error")>>)

\* workerIds.add(worker.WorkerID)
WorkerIdsAdd(workerIds, worker) == workerIds \cup {worker.WorkerID}

WorkerRequired(worker, index) ==
  When(~Truthy(worker.WorkerID),
       <<ValidationError("missing_required", "WorkerID is required", <<>>,
                         index, "WorkerID", "workers", "error")>>)
  \o When(~Truthy(worker.WorkerName),
       <<ValidationError("missing_required", "WorkerName is required", <<>>,
                         index, "WorkerName", "workers", "error")>>)

\* the try block: JSON.parse succeeded with value slots
SlotsParsed(slots, index) ==
  IF ~isArray(slots)
  THEN <<ValidationError("malformed_list", "AvailableSlots must be an array", <<>>,
                         index, "AvailableSlots", "workers", "error")>>
  ELSE Flatten(map(LAMBDA slot :
         When(~isInteger(slot) \/ slot.n < 1,
              <<ValidationError("out_of_range", "AvailableSlots must contain positive integers",
                                <<>>, index, "AvailableSlots", "workers", "error")>>),
         slots.items))

\* the catch block: the text is read as a comma-separated string
SlotsCommaSeparated(text, index) ==
  LET slotStrings == map(trim, split(text, ","))
  IN Flatten(map(LAMBDA slotStr :
         When(\E slot \in {parseInt(slotStr)} : isNaN(slot) \/ Lt(slot, <<1>>),
              <<ValidationError("malformed_list", "AvailableSlots contains invalid numbers",
                                <<>>, index, "AvailableSlots", "workers", "error")>>),
         slotStrings))

\* the try statement, parsed what JSON.parse gives for the cell
SlotsTry(worker, index, parsed) ==
  IF parsed.ok THEN SlotsParsed(parsed.val, index)
  ELSE SlotsCommaSeparated(worker.AvailableSlots.s, index)

WorkerAvailableSlots(worker, index) ==
  IF ~Truthy(worker.AvailableSlots) THEN <<>>
  ELSE SlotsTry(worker, index, JSONparseCell(worker.AvailableSlots))

WorkerMaxLoadPerPhase(worker, index) ==
  When(Lt(ToNumber(worker.MaxLoadPerPhase), <<1>>),
       <<ValidationError("out_of_range", "MaxLoadPerPhase must be at least 1", <<>>,
                         index, "MaxLoadPerPhase", "workers", "error")>>)

WorkerRowErrors(worker, index, workerIds) ==
  WorkerDuplicateId(worker, index, workerIds)
  \o WorkerRequired(worker, index)
  \o WorkerAvailableSlots(worker, index)
  \o WorkerMaxLoadPerPhase(worker, index)

RECURSIVE WorkersForEach(_, _, _)
WorkersForEach(workers, i, workerIds) ==
  IF i > Len(workers) THEN <<>>
  ELSE WorkerRowErrors(workers[i], i - 1, workerIds)
       \o WorkersForEach(workers, i + 1, WorkerIdsAdd(workerIds, workers[i]))

validateWorkers(workers) == WorkersForEach(workers, 1, {})

(***************************************************************************)
(* ValidationService.validateTasks                                         *)
(***************************************************************************)
TaskDuplicateId(task, index, taskIds) ==
  When(task.TaskID \in taskIds,
       <<ValidationError("duplicate_id", "Duplicate TaskID: ", String(task.TaskID),
                         index, "TaskID", "tasks", "error")>>)

\* taskIds.add(task.TaskID)
TaskIdsAdd(taskIds, task) == taskIds \cup {task.TaskID}

TaskRequired(task, index) ==
  When(~Truthy(task.TaskID),
       <<ValidationError("missing_required", "TaskID is required", <<>>,
                         index, "TaskID", "tasks", "error")>>)
  \o When(~Truthy(task.TaskName),
       <<ValidationError("missing_required", "TaskName is required", <<>>,
                         index, "TaskName", "tasks", "error")>>)

TaskDuration(task, index) ==
  When(Lt(ToNumber(task.Duration), <<1>>),
       <<ValidationError("out_of_range", "Duration must be at least 1", <<>>,
                         index, "Duration", "tasks", "error")>>)

TaskMaxConcurrent(task, index) ==
  When(Lt(ToNumber(task.MaxConcurrent), <<1>>),
       <<ValidationError("out_of_range", "MaxConcurrent must be at least 1", <<>>,
                         index, "MaxConcurrent", "tasks", "error")>>)

\* the range branch: const [start, end] = text.split('-').map(parseInt)
RangeInvalid(start, end, index) ==
  When(isNaN(start) \/ isNaN(end) \/ Gt(start, end),
       <<ValidationError("malformed_list", "PreferredPhases range is invalid", <<>>,
                         index, "PreferredPhases", "tasks", "error")>>)

RangeParts(parts, index) == RangeInvalid(parts[1], parts[2], index)

PhasesRange(text, index) ==
  RangeParts(map(LAMBDA x : parseInt(trim(x)), split(text, "-")), index)

\* the comma-separated branch
PhasesCommaSeparated(text, index) ==
  LET phases == map(LAMBDA x : parseInt(trim(x)), split(text, ","))
  IN When(\E p \in Range(phases) : isNaN(p) \/ Lt(p, <<1>>),
          <<ValidationError("malformed_list", "PreferredPhases contains invalid phase numbers",
                            <<>>, index, "PreferredPhases", "tasks", "error")>>)

\* the try block yields an array, or control reaches the catch block
IsParsedArray(parsed) == parsed.ok /\ isArray(parsed.val)

PhasesParsedAsArray(cell) == IsParsedArray(JSONparseCell(cell))

TaskPreferredPhases(task, index) ==
  IF ~Truthy(task.PreferredPhases) THEN <<>>
  ELSE IF PhasesParsedAsArray(task.PreferredPhases) THEN <<>>
  ELSE IF includes(task.PreferredPhases.s, "-")
    THEN PhasesRange(task.PreferredPhases.s, index)
  ELSE PhasesCommaSeparated(task.PreferredPhases.s, index)

TaskRowErrors(task, index, taskIds) ==
  TaskDuplicateId(task, index, taskIds)
  \o TaskRequired(task, index)
  \o TaskDuration(task, index)
  \o TaskMaxConcurrent(task, index)
  \o TaskPreferredPhases(task, index)

RECURSIVE TasksForEach(_, _, _)
TasksForEach(tasks, i, taskIds) ==
  IF i > Len(tasks) THEN <<>>
  ELSE TaskRowErrors(tasks[i], i - 1, taskIds)
       \o TasksForEach(tasks, i + 1, TaskIdsAdd(taskIds, tasks[i]))

validateTasks(tasks) == TasksForEach(tasks, 1, {})

(***************************************************************************)
(* ValidationService.validateCrossReferences and validateAll               *)
(***************************************************************************)
\* the tags of a comma-separated skills text, trimmed and lower-cased
SkillTags(text) ==
  map(LAMBDA s : toLowerCase(trim(s)), split(text, ","))

\* a faulty variant of allWorkerSkills that keeps the letter case of the
\* workers' tags: C11 tells the two apart
allWorkerSkills_caseSensitive(workers) ==
  UNION { IF Truthy(workers[i].Skills)
          THEN Range(map(trim, split(workers[i].Skills.s, ",")))
          ELSE {} : i \in 1..Len(workers) }

\* a faulty variant of allWorkerSkills that reads the first worker only: C12
\* tells the two apart
allWorkerSkills_firstWorker(workers) ==
  UNION { IF Truthy(workers[i].Skills)
          THEN Range(SkillTags(workers[i].Skills.s))
          ELSE {} : i \in 1..(IF Len(workers) > 0 THEN 1 ELSE 0) }

\* worker.Skills.split(',').forEach(skill => add(skill.trim().toLowerCase()))
allWorkerSkills(workers) ==
  UNION { IF Truthy(workers[i].Skills)
          THEN Range(SkillTags(workers[i].Skills.s))
          ELSE {} : i \in 1..Len(workers) }

\* a faulty variant of TaskSkillCoverage whose findings are errors: C14 tells
\* the two apart
TaskSkillCoverage_asError(task, index, workerSkills) ==
  IF ~Truthy(task.RequiredSkills) THEN <<>>
  ELSE Flatten(map(LAMBDA skill :
         When(skill # <<>> /\ skill \notin workerSkills,
              <<ValidationError("skill_coverage", "No worker has required skill: ", skill,
                                index, "RequiredSkills", "tasks", "error")>>),
         SkillTags(task.RequiredSkills.s)))

TaskSkillCoverage(task, index, workerSkills) ==
  IF ~Truthy(task.RequiredSkills) THEN <<>>
  ELSE Flatten(map(LAMBDA skill :
         When(skill # <<>> /\ skill \notin workerSkills,
              <<ValidationError("skill_coverage", "No worker has required skill: ", skill,
                                index, "RequiredSkills", "tasks", "warning")>>),
         SkillTags(task.RequiredSkills.s)))

validateCrossReferences(clients, workers, tasks) ==
  LET workerSkills == allWorkerSkills(workers)
  IN Flatten([i \in 1..Len(tasks) |-> TaskSkillCoverage(tasks[i], i - 1, workerSkills)])

\* a faulty variant of validateAll that puts the worker findings first: C2 tells
\* the two apart
validateAll_workersFirst(clients, workers, tasks) ==
  validateWorkers(workers)
  \o validateClients(clients, tasks)
  \o validateTasks(tasks)
  \o validateCrossReferences(clients, workers, tasks)

validateAll(clients, workers, tasks) ==
  validateClients(clients, tasks)
  \o validateWorkers(workers)
  \o validateTasks(tasks)
  \o validateCrossReferences(clients, workers, tasks)

\* validateAll ends with an uncaught TypeError: a String method (split,
\* includes) is called on a truthy cell that holds no string
validateAllThrows(clients, workers, tasks) ==
  \/ \E i \in 1..Len(clients) :
        Truthy(clients[i].RequestedTaskIDs) /\ NotAString(clients[i].RequestedTaskIDs)
  \/ \E i \in 1..Len(workers) :
        \/ /\ Truthy(workers[i].AvailableSlots)
           /\ ~JSONparseCell(workers[i].AvailableSlots).ok
           /\ NotAString(workers[i].AvailableSlots)
        \/ Truthy(workers[i].Skills) /\ NotAString(workers[i].Skills)
  \/ \E i \in 1..Len(tasks) :
        \/ /\ Truthy(tasks[i].PreferredPhases)
           /\ ~PhasesParsedAsArray(tasks[i].PreferredPhases)
           /\ NotAString(tasks[i].PreferredPhases)
        \/ Truthy(tasks[i].RequiredSkills) /\ NotAString(tasks[i].RequiredSkills)

(***************************************************************************)
(* The session: the state of the Home component.  Row objects live in a    *)
(* heap and an array is a sequence of references, because the handlers     *)
(* copy arrays ([...data]) and write to the row objects the copies share.  *)
(***************************************************************************)
VARIABLES
  heap,               \* reference -> row object, for the references in use
  clients,            \* useState<Client[]>: a sequence of references
  workers,            \* useState<Worker[]>
  tasks,              \* useState<Task[]>
  validationErrors,   \* useState<ValidationError[]>
  validated,          \* the validation effect has called validateAll
  crashed,            \* an effect has thrown: React has unmounted the page
  searchResults,      \* useState<{[key in EntityType]?: any[]}>
  pendingSearch,      \* the searchData call SearchComponent awaits, if any
  alert,              \* the dialog the last handler opened
  exported,           \* the number of exports that wrote their files
  nEvents,            \* the number of user events handled so far
  mounted,            \* the effects of the first render have run
  apiKey,             \* AIService.apiKey; model is set exactly when it is not ''
  advisory,           \* the last call of an AIService method and how it ended
  priorities,         \* useState<Priority[]>
  activePreset        \* PriorityManager: useState<string>

vars == <<heap, clients, workers, tasks, validationErrors, validated, crashed,
          searchResults, pendingSearch, alert, exported, nEvents, mounted, apiKey,
          advisory, priorities, activePreset>>

EntityTypes == {"clients", "workers", "tasks"}

ClientFields ==
  {"ClientID", "ClientName", "PriorityLevel", "RequestedTaskIDs", "GroupTag", "AttributesJSON"}

WorkerFields ==
  {"WorkerID", "WorkerName", "Skills", "AvailableSlots", "MaxLoadPerPhase", "WorkerGroup",
   "QualificationLevel"}

TaskFields ==
  {"TaskID", "TaskName", "Category", "Duration", "RequiredSkills", "PreferredPhases",
   "MaxConcurrent"}

Fields(entityType) ==
  CASE entityType = "clients" -> ClientFields
    [] entityType = "workers" -> WorkerFields
    [] entityType = "tasks" -> TaskFields

Client(id, name, priority, requested, attributes) ==
  [ClientID |-> id, ClientName |-> name, PriorityLevel |-> priority,
   RequestedTaskIDs |-> requested, GroupTag |-> Str(<<>>), AttributesJSON |-> attributes]

Worker(id, name, skills, slots, maxLoad) ==
  [WorkerID |-> id, WorkerName |-> name, Skills |-> skills, AvailableSlots |-> slots,
   MaxLoadPerPhase |-> maxLoad, WorkerGroup |-> Str(<<>>), QualificationLevel |-> Num(1)]

Task(id, name, duration, skills, phases, maxConcurrent) ==
  [TaskID |-> id, TaskName |-> name, Category |-> Str(<<>>), Duration |-> duration,
   RequiredSkills |-> skills, PreferredPhases |-> phases, MaxConcurrent |-> maxConcurrent]

\* the rows an array of references to entityType's row objects denotes in h
RowsIn(h, entityType, refs) == [i \in 1..Len(refs) |-> h[entityType][refs[i]]]

\* the base collection of an entity
Collection(entityType) ==
  CASE entityType = "clients" -> clients
    [] entityType = "workers" -> workers
    [] entityType = "tasks" -> tasks

NoSearch == [found |-> FALSE, rows |-> <<>>]

NoPending == [active |-> FALSE, entityType |-> "clients", data |-> <<>>]

\* getCurrentData: searchResults[entityType] || baseData (an empty array is truthy)
getCurrentData(entityType) ==
  IF searchResults[entityType].found THEN searchResults[entityType].rows
  ELSE Collection(entityType)

\* DataGrid.getErrorsForCell for the grid of entityType: rowIndex is the
\* position of the row in the data the grid displays
getErrorsForCell(entityType, rowIndex, column) ==
  SelectSeq(validationErrors,
            LAMBDA error : /\ error.row = rowIndex
                           /\ error.column = column
                           /\ error.entity = entityType)

\* DataGrid.hasErrorsForCell
hasErrorsForCell(entityType, rowIndex, column) ==
  Len(getErrorsForCell(entityType, rowIndex, column)) > 0

\* a faulty variant of canExport that lets warnings block the export: C4 tells
\* the two apart
canExport_anyFinding ==
  LET hasData == Len(clients) > 0 /\ Len(workers) > 0 /\ Len(tasks) > 0
      hasNoErrors == Len(validationErrors) = 0
  IN hasData /\ hasNoErrors

\* canExport
canExport ==
  LET hasData == Len(clients) > 0 /\ Len(workers) > 0 /\ Len(tasks) > 0
      hasNoErrors ==
        Len(SelectSeq(validationErrors, LAMBDA e : e.severity = "error")) = 0
  IN hasData /\ hasNoErrors

RECURSIVE Ascending(_)
Ascending(set) ==
  IF set = {} THEN <<>>
  ELSE LET m == CHOOSE x \in set : \A y \in set : x <= y
       IN <<m>> \o Ascending(set \ {m})

\* k references that are not in the set inUse, in ascending order
FreshRefs(inUse, k) ==
  SubSeq(Ascending((1..(Cardinality(inUse) + k)) \ inUse), 1, k)

\* the references to entityType's row objects that some array still holds:
\* base the collection, sr the search results, ps the pending search
Live(entityType, base, sr, ps) ==
  Range(base) \cup Range(sr[entityType].rows)
  \cup (IF ps.entityType = entityType THEN Range(ps.data) ELSE {})

\* The validation effect (useEffect on [clients, workers, tasks]) for the
\* collections c, w, t in heap h.
ValidationEffect(h, c, w, t) ==
  LET clientRows == RowsIn(h, "clients", c)
      workerRows == RowsIn(h, "workers", w)
      taskRows == RowsIn(h, "tasks", t)
  IN IF Len(c) > 0 \/ Len(w) > 0 \/ Len(t) > 0
     THEN IF validateAllThrows(clientRows, workerRows, taskRows)
          THEN /\ crashed' = TRUE
               /\ UNCHANGED <<validationErrors, validated>>
          ELSE /\ validationErrors' = validateAll(clientRows, workerRows, taskRows)
               /\ validated' = TRUE
               /\ UNCHANGED crashed
     ELSE UNCHANGED <<validationErrors, validated, crashed>>

\* the row objects of h that the arrays still hold; the others are garbage
Collect(h, c, w, t, sr, ps) ==
  [e \in EntityTypes |->
     [r \in Live(e, CASE e = "clients" -> c [] e = "workers" -> w [] e = "tasks" -> t,
                 sr, ps) |-> h[e][r]]]

\* A handler has set the collections to c, w, t over heap h and the search
\* state to sr, ps: the new state is rendered and the validation effect runs.
SetCollections(h, c, w, t, sr, ps) ==
  /\ clients' = c
  /\ workers' = w
  /\ tasks' = t
  /\ searchResults' = sr
  /\ pendingSearch' = ps
  /\ heap' = Collect(h, c, w, t, sr, ps)
  /\ ValidationEffect(h, c, w, t)

\* entityType's collection replaced by refs
With(entityType, refs) ==
  [clients |-> IF entityType = "clients" THEN refs ELSE clients,
   workers |-> IF entityType = "workers" THEN refs ELSE workers,
   tasks |-> IF entityType = "tasks" THEN refs ELSE tasks]

\* a user event can be handled
Interactive == mounted /\ ~crashed /\ nEvents < MaxEvents

(***************************************************************************)
(* dataService.generateSampleData                                          *)
(***************************************************************************)
sampleClients ==
  <<
    [ClientID |-> Str(<<"C", "0", "0", "1">>),
     ClientName |-> Str(<<"A", "c", "m", "e", " ", "C", "o", "r", "p">>),
     PriorityLevel |-> Num(3),
     RequestedTaskIDs |-> Str(<<"T", "0", "0", "1", ",", "T", "0", "0", "2">>),
     GroupTag |-> Str(<<"E", "n", "t", "e", "r", "p", "r", "i", "s", "e">>),
     AttributesJSON |-> Str(<<"{", "\"", "b", "u", "d", "g", "e", "t", "\"", ":", " ", "1",
         "0", "0", "0", "0", "0", ",", " ", "\"", "d", "e", "a", "d", "l", "i", "n", "e",
         "\"", ":", " ", "\"", "2", "0", "2", "4", "-", "1", "2", "-", "3", "1", "\"",
         "}">>)],
    [ClientID |-> Str(<<"C", "0", "0", "2">>),
     ClientName |-> Str(<<"T", "e", "c", "h", "S", "t", "a", "r", "t", " ", "I", "n", "c">>),
     PriorityLevel |-> Num(5),
     RequestedTaskIDs |-> Str(<<"T", "0", "0", "3">>),
     GroupTag |-> Str(<<"S", "t", "a", "r", "t", "u", "p">>),
     AttributesJSON |-> Str(<<"{", "\"", "b", "u", "d", "g", "e", "t", "\"", ":", " ", "5",
         "0", "0", "0", "0", ",", " ", "\"", "p", "r", "i", "o", "r", "i", "t", "y",
         "\"", ":", " ", "\"", "h", "i", "g", "h", "\"", "}">>)]
  >>

sampleWorkers ==
  <<
    [WorkerID |-> Str(<<"W", "0", "0", "1">>),
     WorkerName |-> Str(<<"J", "o", "h", "n", " ", "D", "o", "e">>),
     Skills |-> Str(<<"J", "a", "v", "a", "S", "c", "r", "i", "p", "t", ",", "R", "e", "a",
         "c", "t", ",", "N", "o", "d", "e", ".", "j", "s">>),
     AvailableSlots |-> Str(<<"[", "1", ",", "2", ",", "3", "]">>),
     MaxLoadPerPhase |-> Num(2),
     WorkerGroup |-> Str(<<"F", "r", "o", "n", "t", "e", "n", "d">>),
     QualificationLevel |-> Num(3)],
    [WorkerID |-> Str(<<"W", "0", "0", "2">>),
     WorkerName |-> Str(<<"J", "a", "n", "e", " ", "S", "m", "i", "t", "h">>),
     Skills |-> Str(<<"P", "y", "t", "h", "o", "n", ",", "D", "j", "a", "n", "g", "o", ",",
         "P", "o", "s", "t", "g", "r", "e", "S", "Q", "L">>),
     AvailableSlots |-> Str(<<"[", "2", ",", "3", ",", "4", "]">>),
     MaxLoadPerPhase |-> Num(3),
     WorkerGroup |-> Str(<<"B", "a", "c", "k", "e", "n", "d">>),
     QualificationLevel |-> Num(4)],
    [WorkerID |-> Str(<<"W", "0", "0", "3">>),
     WorkerName |-> Str(<<"B", "o", "b", " ", "J", "o", "h", "n", "s", "o", "n">>),
     Skills |-> Str(<<"J", "a", "v", "a", ",", "S", "p", "r", "i", "n", "g", ",", "M", "y",
         "S", "Q", "L">>),
     AvailableSlots |-> Str(<<"[", "1", ",", "3", ",", "5", "]">>),
     MaxLoadPerPhase |-> Num(2),
     WorkerGroup |-> Str(<<"B", "a", "c", "k", "e", "n", "d">>),
     QualificationLevel |-> Num(3)]
  >>

sampleTasks ==
  <<
    [TaskID |-> Str(<<"T", "0", "0", "1">>),
     TaskName |-> Str(<<"F", "r", "o", "n", "t", "e", "n", "d", " ", "D", "e", "v", "e", "l",
         "o", "p", "m", "e", "n", "t">>),
     Category |-> Str(<<"D", "e", "v", "e", "l", "o", "p", "m", "e", "n", "t">>),
     Duration |-> Num(2),
     RequiredSkills |-> Str(<<"J", "a", "v", "a", "S", "c", "r", "i", "p", "t", ",", "R", "e",
         "a", "c", "t">>),
     PreferredPhases |-> Str(<<"[", "1", ",", "2", "]">>),
     MaxConcurrent |-> Num(2)],
    [TaskID |-> Str(<<"T", "0", "0", "2">>),
     TaskName |-> Str(<<"B", "a", "c", "k", "e", "n", "d", " ", "A", "P", "I">>),
     Category |-> Str(<<"D", "e", "v", "e", "l", "o", "p", "m", "e", "n", "t">>),
     Duration |-> Num(3),
     RequiredSkills |-> Str(<<"P", "y", "t", "h", "o", "n", ",", "D", "j", "a", "n", "g",
         "o">>),
     PreferredPhases |-> Str(<<"2", "-", "4">>),
     MaxConcurrent |-> Num(1)],
    [TaskID |-> Str(<<"T", "0", "0", "3">>),
     TaskName |-> Str(<<"D", "a", "t", "a", "b", "a", "s", "e", " ", "D", "e", "s", "i", "g",
         "n">>),
     Category |-> Str(<<"A", "r", "c", "h", "i", "t", "e", "c", "t", "u", "r", "e">>),
     Duration |-> Num(1),
     RequiredSkills |-> Str(<<"M", "y", "S", "Q", "L", ",", "P", "o", "s", "t", "g", "r", "e",
         "S", "Q", "L">>),
     PreferredPhases |-> Str(<<"[", "1", "]">>),
     MaxConcurrent |-> Num(1)]
  >>

generateSampleData ==
  [clients |-> sampleClients, workers |-> sampleWorkers, tasks |-> sampleTasks]

(***************************************************************************)
(* Inputs of the session: what dataService.parseFile returns for the files *)
(* a user uploads, the text typed into a grid cell, the value a suggested  *)
(* correction carries.                                                     *)
(***************************************************************************)
ParsedRows(entityType) ==
  CASE entityType = "clients" ->
         {Client(Str(<<"a">>), Str(<<"n">>), Num(1), Str(<<"a">>), Str(<<>>)),
          Client(Str(<<"b">>), Str(<<"n">>), Num(6), Str(<<>>), Str(<<>>))}
    [] entityType = "workers" ->
         {Worker(Str(<<"a">>), Str(<<"n">>), Str(<<"x">>), Str(<<"[", "1", "]">>), Num(1)),
          Worker(Str(<<"b">>), Str(<<"n">>), Str(<<>>), Str(<<>>), Num(1))}
    [] entityType = "tasks" ->
         {Task(Str(<<"a">>), Str(<<"n">>), Num(1), Str(<<"X">>), Str(<<"1", "-", "2">>), Num(1)),
          Task(Str(<<"b">>), Str(<<"n">>), Num(1), Str(<<>>), Str(<<"2", "-", "1">>), Num(1))}

\* the sequences of at most n elements of set
SeqsUpTo(set, n) == UNION {[1..k -> set] : k \in 0..n}

ParsedFiles(entityType) == SeqsUpTo(ParsedRows(entityType), MaxFileRows)

EditColumns(entityType) ==
  CASE entityType = "clients" -> {"ClientID", "PriorityLevel"}
    [] entityType = "workers" -> {"Skills"}
    [] entityType = "tasks" -> {"PreferredPhases"}

EditValues == {<<>>, <<"a">>}

FixValues == {Num(5), Str(<<>>)}

(***************************************************************************)
(* AIService (lib/ai) and DataService.expectedFields.  What the generative *)
(* model answers is an input: the call is rejected, or it resolves with a  *)
(* text that JSON.parse rejects, or with a text that parses to a value.    *)
(***************************************************************************)
\* DataService.expectedFields: the field names of an entity, in order
expectedFields(entityType) ==
  CASE entityType = "clients" ->
         <<"ClientID", "ClientName", "PriorityLevel", "RequestedTaskIDs", "GroupTag", "AttributesJSON">>
    [] entityType = "workers" ->
         <<"WorkerID", "WorkerName", "Skills", "AvailableSlots", "MaxLoadPerPhase", "WorkerGroup", "QualificationLevel">>
    [] entityType = "tasks" ->
         <<"TaskID", "TaskName", "Category", "Duration", "RequiredSkills", "PreferredPhases", "MaxConcurrent">>

\* the characters of a field name
Chars(name) ==
  CASE name = "ClientID" -> <<"C", "l", "i", "e", "n", "t", "I", "D">>
    [] name = "ClientName" -> <<"C", "l", "i", "e", "n", "t", "N", "a", "m", "e">>
    [] name = "PriorityLevel" -> <<"P", "r", "i", "o", "r", "i", "t", "y", "L", "e", "v", "e", "l">>
    [] name = "RequestedTaskIDs" -> <<"R", "e", "q", "u", "e", "s", "t", "e", "d", "T", "a", "s", "k", "I", "D", "s">>
    [] name = "GroupTag" -> <<"G", "r", "o", "u", "p", "T", "a", "g">>
    [] name = "AttributesJSON" -> <<"A", "t", "t", "r", "i", "b", "u", "t", "e", "s", "J", "S", "O", "N">>
    [] name = "WorkerID" -> <<"W", "o", "r", "k", "e", "r", "I", "D">>
    [] name = "WorkerName" -> <<"W", "o", "r", "k", "e", "r", "N", "a", "m", "e">>
    [] name = "Skills" -> <<"S", "k", "i", "l", "l", "s">>
    [] name = "AvailableSlots" -> <<"A", "v", "a", "i", "l", "a", "b", "l", "e", "S", "l", "o", "t", "s">>
    [] name = "MaxLoadPerPhase" -> <<"M", "a", "x", "L", "o", "a", "d", "P", "e", "r", "P", "h", "a", "s", "e">>
    [] name = "WorkerGroup" -> <<"W", "o", "r", "k", "e", "r", "G", "r", "o", "u", "p">>
    [] name = "QualificationLevel" -> <<"Q", "u", "a", "l", "i", "f", "i", "c", "a", "t", "i", "o", "n", "L", "e", "v", "e", "l">>
    [] name = "TaskID" -> <<"T", "a", "s", "k", "I", "D">>
    [] name = "TaskName" -> <<"T", "a", "s", "k", "N", "a", "m", "e">>
    [] name = "Category" -> <<"C", "a", "t", "e", "g", "o", "r", "y">>
    [] name = "Duration" -> <<"D", "u", "r", "a", "t", "i", "o", "n">>
    [] name = "RequiredSkills" -> <<"R", "e", "q", "u", "i", "r", "e", "d", "S", "k", "i", "l", "l", "s">>
    [] name = "PreferredPhases" -> <<"P", "r", "e", "f", "e", "r", "r", "e", "d", "P", "h", "a", "s", "e", "s">>
    [] name = "MaxConcurrent" -> <<"M", "a", "x", "C", "o", "n", "c", "u", "r", "r", "e", "n", "t">>

\* String.prototype.includes
includesString(s, sub) ==
  \E i \in 0..(Len(s) - Len(sub)) : SubSeq(s, i + 1, i + Len(sub)) = sub

\* AIService.isConfigured: model is set exactly when apiKey is not ''
isConfigured == apiKey # <<>>

\* no AIService method has been called
NoCall ==
  [feature |-> "none", configured |-> FALSE, reply |-> "none", input |-> <<>>,
   threw |-> FALSE, value |-> <<>>]

\* a call of an AIService method that returned value, or threw to its caller
Called(feature, reply, input, threw, value) ==
  [feature |-> feature, configured |-> isConfigured, reply |-> reply.kind,
   input |-> input, threw |-> threw, value |-> value]

\* the predicate of expectedFields.find, field and header lower-cased
FieldMatches(field, header) ==
  field = header \/ includesString(field, header) \/ includesString(header, field)

\* expectedFields.find(...) || header
MatchOrHeader(header, fields) ==
  IF \E i \in 1..Len(fields) : FieldMatches(toLowerCase(fields[i]), toLowerCase(header))
  THEN fields[CHOOSE i \in 1..Len(fields) :
                /\ FieldMatches(toLowerCase(fields[i]), toLowerCase(header))
                /\ \A j \in 1..(i - 1) :
                     ~FieldMatches(toLowerCase(fields[j]), toLowerCase(header))]
  ELSE header

\* the mapping of the string-match fallback
StringMatchMapping(headers, fields) ==
  [header \in Range(headers) |-> MatchOrHeader(header, fields)]

\* the mapping of the outer catch block: every header to itself
HeaderToItself(headers) == [header \in Range(headers) |-> header]

\* AIService.parseAndMapHeaders; what it returns
parseAndMapHeaders(headers, fields, reply) ==
  IF ~isConfigured THEN StringMatchMapping(headers, fields)
  ELSE IF reply.kind = "rejected" THEN HeaderToItself(headers)
  ELSE IF reply.kind = "unparseable" THEN StringMatchMapping(headers, fields)
  ELSE reply.value

\* the elements of a at the indices of keep, in order (Array.prototype.filter)
filter(a, keep) ==
  LET F[i \in 0..Len(a)] ==
        IF i = 0 THEN <<>>
        ELSE IF i \in keep THEN Append(F[i - 1], a[i]) ELSE F[i - 1]
  IN F[Len(a)]

\* JSON.stringify of a string
Quote(s) ==
  <<"\"">> \o Flatten([i \in 1..Len(s) |->
                        IF s[i] \in {"\"", "\\"} THEN <<"\\", s[i]>> ELSE <<s[i]>>])
  \o <<"\"">>

\* JSON.stringify of the members of a row object from the k-th on, the keys in
\* the order of names
RECURSIVE Members(_, _, _)
Members(item, names, k) ==
  IF k > Len(names) THEN <<>>
  ELSE (IF k > 1 THEN <<",">> ELSE <<>>)
       \o Quote(Chars(names[k])) \o <<":">>
       \o (IF item[names[k]].t = "str" THEN Quote(item[names[k]].s)
           ELSE String(item[names[k]]))
       \o Members(item, names, k + 1)

\* JSON.stringify(item) for a row object whose keys are in the order of
\* expectedFields
JSONstringify(item, entityType) ==
  <<"{">> \o Members(item, expectedFields(entityType), 1) \o <<"}">>

\* data.filter(item => JSON.stringify(item).toLowerCase().includes(query.toLowerCase()))
TextSearch(query, data, entityType) ==
  filter(data, {i \in 1..Len(data) :
                  includesString(toLowerCase(JSONstringify(data[i], entityType)),
                                 toLowerCase(query))})

\* AIService.searchData; what it resolves with.  A parsed reply is the set
\* of the (zero-based) indices it lists
searchData(query, data, entityType, reply) ==
  IF ~isConfigured \/ reply.kind # "parsed" THEN TextSearch(query, data, entityType)
  ELSE filter(data, {i \in 1..Len(data) : i - 1 \in reply.value})

\* AIService.throwIfNotConfigured throws
throwIfNotConfigured == ~isConfigured

\* the value null, and a rule object with its type
NullRule == [isNull |-> TRUE, type |-> ""]

\* AIService.convertToRule; what it returns unless throwIfNotConfigured throws
convertToRule(reply) ==
  IF reply.kind # "parsed" THEN NullRule
  ELSE IF ~reply.value.isNull /\ reply.value.type # "" THEN reply.value
  ELSE NullRule

\* AIService.suggestCorrections; what it returns unless throwIfNotConfigured
\* throws: the suggestions as a set, {} the empty object
suggestCorrections(reply) ==
  IF reply.kind # "parsed" THEN {} ELSE reply.value

(***************************************************************************)
(* The handlers of Home and DataGrid.                                      *)
(***************************************************************************)
\* handleFileUpload, parseFile having returned parsedData
HandleFileUpload(entityType, parsedData) ==
  /\ Interactive
  /\ LET sr == [searchResults EXCEPT ![entityType] = NoSearch]
         held == Live(entityType, <<>>, sr, pendingSearch)
         refs == FreshRefs(held, Len(parsedData))
         h == [heap EXCEPT ![entityType] =
                 [r \in held \cup Range(refs) |->
                    IF r \in held THEN heap[entityType][r]
                    ELSE parsedData[CHOOSE i \in 1..Len(refs) : refs[i] = r]]]
         new == With(entityType, refs)
     IN SetCollections(h, new.clients, new.workers, new.tasks, sr, pendingSearch)
  /\ alert' = "none"
  /\ nEvents' = nEvents + 1
  /\ UNCHANGED <<mounted, apiKey, advisory, priorities, activePreset>>
  /\ UNCHANGED exported

\* handleFileUpload, parseFile having thrown (an empty or unsupported file)
HandleFileUploadError(entityType) ==
  /\ Interactive
  /\ alert' = "Error uploading"
  /\ nEvents' = nEvents + 1
  /\ UNCHANGED <<mounted, apiKey, advisory, priorities, activePreset>>
  /\ UNCHANGED <<heap, clients, workers, tasks, validationErrors, validated, crashed,
                 searchResults, pendingSearch, exported>>

\* handleCellClick: the text the editor starts with, String(value || '')
handleCellClick(value) == IF Truthy(value) THEN String(value) ELSE <<>>

\* a faulty variant of SetField that writes the field of every row: C7 tells the
\* two apart
SetField_everyRow(h, entityType, ref, field, value) ==
  [h EXCEPT ![entityType] =
     [r \in DOMAIN h[entityType] |-> [h[entityType][r] EXCEPT ![field] = value]]]

\* obj[field] = value on the row object of entityType behind ref
SetField(h, entityType, ref, field, value) ==
  [h EXCEPT ![entityType][ref][field] = value]

\* DataGrid.handleCellSave on the cell (rowIndex, column) of the displayed
\* data, editValue typed, then Home.handleDataChange
HandleCellSave(entityType, rowIndex, column, editValue) ==
  /\ Interactive
  /\ LET data == getCurrentData(entityType)
         new == With(entityType, data)
     IN /\ rowIndex < Len(data)
        /\ SetCollections(SetField(heap, entityType, data[rowIndex + 1], column, Str(editValue)),
                          new.clients, new.workers, new.tasks, searchResults, pendingSearch)
  /\ alert' = "none"
  /\ nEvents' = nEvents + 1
  /\ UNCHANGED <<mounted, apiKey, advisory, priorities, activePreset>>
  /\ UNCHANGED exported

\* ValidationSummary.handleApplySuggestion for a finding of the report,
\* then Home.handleApplyFix
HandleApplyFix(entityType, rowIndex, field, newValue) ==
  /\ Interactive
  /\ LET newData == Collection(entityType)
     IN IF rowIndex < Len(newData)
        THEN SetCollections(SetField(heap, entityType, newData[rowIndex + 1], field, newValue),
                            clients, workers, tasks, searchResults, pendingSearch)
        ELSE \* newData[rowIndex] is undefined: the handler ends with a TypeError
             UNCHANGED <<heap, clients, workers, tasks, validationErrors, validated,
                         crashed, searchResults, pendingSearch>>
  /\ alert' = "none"
  /\ nEvents' = nEvents + 1
  /\ UNCHANGED <<mounted, apiKey, advisory, priorities, activePreset>>
  /\ UNCHANGED exported

\* the search state becomes sr, ps; no collection is set
SetSearch(sr, ps) ==
  /\ searchResults' = sr
  /\ pendingSearch' = ps
  /\ heap' = Collect(heap, clients, workers, tasks, sr, ps)
  /\ UNCHANGED <<clients, workers, tasks, validationErrors, validated, crashed>>

\* SearchComponent.handleSearch up to its await, for a query that is not blank
SearchStart(entityType) ==
  /\ Interactive
  /\ ~pendingSearch.active
  /\ SetSearch(searchResults,
               [active |-> TRUE, entityType |-> entityType, data |-> Collection(entityType)])
  /\ alert' = "none"
  /\ nEvents' = nEvents + 1
  /\ UNCHANGED <<mounted, apiKey, advisory, priorities, activePreset>>
  /\ UNCHANGED exported

\* searchData resolves with the rows at the indices of keep; Home.handleSearch
SearchDone(keep) ==
  /\ ~crashed
  /\ pendingSearch.active
  /\ SetSearch([searchResults EXCEPT ![pendingSearch.entityType] =
                  [found |-> TRUE, rows |-> filter(pendingSearch.data, keep)]],
               NoPending)
  /\ alert' = "none"
  /\ UNCHANGED <<exported, nEvents, mounted, apiKey, advisory, priorities, activePreset>>

\* clearSearch, also what a blank query does
ClearSearch(entityType) ==
  /\ Interactive
  /\ SetSearch([searchResults EXCEPT ![entityType] = NoSearch], pendingSearch)
  /\ alert' = "none"
  /\ nEvents' = nEvents + 1
  /\ UNCHANGED <<mounted, apiKey, advisory, priorities, activePreset>>
  /\ UNCHANGED exported

\* handleExport
HandleExport ==
  /\ Interactive
  /\ IF ~canExport
     THEN /\ alert' = "Please fix all validation errors before exporting."
          /\ UNCHANGED exported
     ELSE /\ alert' = "Files exported successfully!"
          /\ exported' = exported + 1
  /\ nEvents' = nEvents + 1
  /\ UNCHANGED <<mounted, apiKey, advisory, priorities, activePreset>>
  /\ UNCHANGED <<heap, clients, workers, tasks, validationErrors, validated, crashed,
                 searchResults, pendingSearch>>

EmptyHeap == [e \in EntityTypes |-> [r \in {} |-> 0]]

\* the useState initial values
Init ==
  /\ heap = EmptyHeap
  /\ clients = <<>>
  /\ workers = <<>>
  /\ tasks = <<>>
  /\ validationErrors = <<>>
  /\ validated = FALSE
  /\ crashed = FALSE
  /\ searchResults = [e \in EntityTypes |-> NoSearch]
  /\ pendingSearch = NoPending
  /\ alert = "none"
  /\ exported = 0
  /\ nEvents = 0
  /\ mounted = FALSE
  /\ apiKey = <<>>
  /\ advisory = NoCall
  /\ priorities = <<>>
  /\ activePreset = "custom"

\* the effects of the first render: the sample data is set, and the
\* validation effect runs once on the empty collections and again on the
\* sample data
Mount ==
  /\ ~mounted
  /\ LET sampleData == generateSampleData
         c == FreshRefs({}, Len(sampleData.clients))
         w == FreshRefs({}, Len(sampleData.workers))
         t == FreshRefs({}, Len(sampleData.tasks))
         h == [e \in EntityTypes |->
                 CASE e = "clients" -> sampleData.clients
                   [] e = "workers" -> sampleData.workers
                   [] e = "tasks" -> sampleData.tasks]
     IN SetCollections(h, c, w, t, searchResults, pendingSearch)
  /\ mounted' = TRUE
  /\ UNCHANGED <<alert, exported, nEvents, apiKey, advisory, priorities, activePreset>>

Upload == \E e \in EntityTypes : \E parsedData \in ParsedFiles(e) : HandleFileUpload(e, parsedData)

UploadError == \E e \in EntityTypes : HandleFileUploadError(e)

CellSave ==
  \E e \in EntityTypes : \E rowIndex \in 0..(Len(getCurrentData(e)) - 1) :
    \E column \in EditColumns(e) :
      \E editValue \in EditValues
                       \cup {handleCellClick(heap[e][getCurrentData(e)[rowIndex + 1]][column])} :
        HandleCellSave(e, rowIndex, column, editValue)

ApplyFix ==
  \E i \in 1..Len(validationErrors) : \E newValue \in FixValues :
    HandleApplyFix(validationErrors[i].entity, validationErrors[i].row,
                   validationErrors[i].column, newValue)

Search == \E e \in EntityTypes : SearchStart(e)

SearchResult == \E keep \in SUBSET (1..Len(pendingSearch.data)) : SearchDone(keep)

Clear == \E e \in EntityTypes : ClearSearch(e)

Next ==
  \/ Mount
  \/ Upload
  \/ UploadError
  \/ CellSave
  \/ ApplyFix
  \/ Search
  \/ SearchResult
  \/ Clear
  \/ HandleExport

Spec == Init /\ [][Next]_vars

(***************************************************************************)
(* The validators on drawn inputs.  The page is mounted with the drawn     *)
(* collections and the validation effect has not run yet; the one step is  *)
(* the effect calling validateAll.                                         *)
(***************************************************************************)
\* the validation effect on its own
RunValidation ==
  /\ mounted
  /\ ~validated
  /\ ~crashed
  /\ ValidationEffect(heap, clients, workers, tasks)
  /\ UNCHANGED <<heap, clients, workers, tasks, searchResults, pendingSearch, alert,
                 exported, nEvents, mounted, apiKey, advisory, priorities, activePreset>>

\* the collections c, w, t of row records and the priority list p, rendered
\* and not yet validated
RenderedWith(c, w, t, p) ==
  /\ heap = [e \in EntityTypes |->
               CASE e = "clients" -> c [] e = "workers" -> w [] e = "tasks" -> t]
  /\ clients = FreshRefs({}, Len(c))
  /\ workers = FreshRefs({}, Len(w))
  /\ tasks = FreshRefs({}, Len(t))
  /\ validationErrors = <<>>
  /\ validated = FALSE
  /\ crashed = FALSE
  /\ searchResults = [e \in EntityTypes |-> NoSearch]
  /\ pendingSearch = NoPending
  /\ alert = "none"
  /\ exported = 0
  /\ nEvents = 0
  /\ mounted = TRUE
  /\ apiKey = <<>>
  /\ advisory = NoCall
  /\ priorities = p
  /\ activePreset = "custom"

\* the same with no priority list yet
Rendered(c, w, t) == RenderedWith(c, w, t, <<>>)

\* the characters of the drawn list texts
Alphabet == {"0", "1", "2", "-", ",", " ", "[", "]", "x"}

\* the texts of at most n characters
Texts(n) == SeqsUpTo(Alphabet, n)

\* one worker whose AvailableSlots and one task whose PreferredPhases is text
InitDecode ==
  \E text \in Texts(MaxLen) :
    Rendered(<<>>,
             <<Worker(Str(<<"a">>), Str(<<"n">>), Str(<<>>), Str(text), Num(1))>>,
             <<Task(Str(<<"a">>), Str(<<"n">>), Num(1), Str(<<>>), Str(text), Num(1))>>)

SpecDecode == InitDecode /\ [][RunValidation]_vars

\* the identifiers of the drawn rows
IdValues == {Str(<<>>), Str(<<"a">>), Str(<<"b">>)}

\* a client that requests task a
ClientRow(id) == Client(id, Str(<<"n">>), Num(1), Str(<<"a">>), Str(<<>>))

\* worker a has skill x, the others have none
WorkerRow(id) ==
  Worker(id, Str(<<"n">>), IF id = Str(<<"a">>) THEN Str(<<"x">>) ELSE Str(<<>>),
         Str(<<>>), Num(1))

\* a task that requires skill X
TaskRow(id) == Task(id, Str(<<"n">>), Num(1), Str(<<"X">>), Str(<<>>), Num(1))

\* collections of at most MaxRows rows each, drawn by their identifiers
InitValidate ==
  \E c \in SeqsUpTo(IdValues, MaxRows) :
    \E w \in SeqsUpTo(IdValues, MaxRows) :
      \E t \in SeqsUpTo(IdValues, MaxRows) :
        Rendered(map(ClientRow, c), map(WorkerRow, w), map(TaskRow, t))

SpecValidate == InitValidate /\ [][RunValidation]_vars

\* the characters of the drawn skill lists: one tag in both letter cases, a
\* second tag, the separator and white space
SkillAlphabet == {"a", "A", "b", ",", " "}

SkillTexts(n) == SeqsUpTo(SkillAlphabet, n)

\* a worker that offers the skills of the text and is valid otherwise
SkilledWorker(id, skills) == Worker(Str(id), Str(<<"n">>), Str(skills), Str(<<>>), Num(1))

\* a task that requires the skills of the text and is valid otherwise
SkilledTask(id, skills) ==
  Task(Str(id), Str(<<"n">>), Num(1), Str(skills), Str(<<>>), Num(1))

\* one task and at most one worker, their skill lists drawn
InitSkills ==
  \E required \in SkillTexts(MaxSkillLen) :
    \E offered \in SeqsUpTo(SkillTexts(MaxOfferLen), 1) :
      Rendered(<<>>,
               [i \in 1..Len(offered) |-> SkilledWorker(<<"a">>, offered[i])],
               <<SkilledTask(<<"a">>, required)>>)

\* a workers file that holds the rows of the worker collection and one more
\* worker is uploaded: handleFileUpload
AddWorker ==
  /\ validated
  /\ nEvents = 0
  /\ \E skills \in SkillTexts(MaxOfferLen) :
       HandleFileUpload("workers",
                        Append(RowsIn(heap, "workers", workers),
                               SkilledWorker(<<"b">>, skills)))

NextSkills ==
  \/ RunValidation
  \/ AddWorker

SpecSkills == InitSkills /\ [][NextSkills]_vars

\* the characters of the drawn RequestedTaskIDs texts
RequestAlphabet == {"a", "b", ",", " "}

\* a client that requests the tasks of the text and is valid otherwise
RequestingClient(id, requested) ==
  Client(Str(id), Str(<<"n">>), Num(1), Str(requested), Str(<<>>))

\* the client rows of the drawn collections of several rows: task z is
\* never there
RequestingClients ==
  {RequestingClient(id, requested) :
     id \in {<<"a">>, <<"b">>}, requested \in {<<>>, <<"a">>, <<"z">>}}

\* the client collections drawn: at most MaxRows rows with simple requests, or
\* one row with any text of at most MaxRequestLen characters
ClientDraws ==
  SeqsUpTo(RequestingClients, MaxRows)
  \cup {<<RequestingClient(<<"a">>, requested)>> :
          requested \in SeqsUpTo(RequestAlphabet, MaxRequestLen)}

\* the task collections drawn: at most MaxTasks rows, by their identifiers
TaskDraws ==
  {[i \in 1..Len(ids) |-> SkilledTask(ids[i], <<>>)] :
     ids \in SeqsUpTo({<<"a">>, <<"b">>, <<" ", "a">>}, MaxTasks)}

InitRequests ==
  \E c \in ClientDraws : \E t \in TaskDraws : Rendered(c, <<>>, t)

\* the rows but the one at position r (one-based)
RemoveAt(rows, r) == SubSeq(rows, 1, r - 1) \o SubSeq(rows, r + 1, Len(rows))

\* a clients file that holds the rows of the client collection but one is
\* uploaded: handleFileUpload
RemoveClient ==
  /\ validated
  /\ nEvents = 0
  /\ \E r \in 1..Len(clients) :
       HandleFileUpload("clients", RemoveAt(RowsIn(heap, "clients", clients), r))

NextRequests ==
  \/ RunValidation
  \/ RemoveClient

SpecRequests == InitRequests /\ [][NextRequests]_vars

\* client rows whose cells are right or wrong in each way validateClients
\* looks for
KindClients ==
  {Client(Str(id), Str(<<"n">>), Num(priority), Str(requested), Str(attributes)) :
     id \in {<<>>, <<"a">>}, priority \in {1, 6},
     requested \in {<<>>, <<"z">>}, attributes \in {<<>>, <<"{">>}}

\* worker rows whose cells are right or wrong in each way validateWorkers
\* looks for
KindWorkers ==
  {Worker(Str(id), Str(<<"n">>), Str(<<>>), Str(slots), Num(maxLoad)) :
     id \in {<<>>, <<"a">>}, slots \in {<<>>, <<"[", "0", "]">>, <<"x">>, <<"1">>},
     maxLoad \in {0, 1}}

\* task rows whose cells are right or wrong in each way validateTasks and
\* validateCrossReferences look for
KindTasks ==
  {Task(Str(id), Str(<<"n">>), Num(duration), Str(skills), Str(phases), Num(1)) :
     id \in {<<>>, <<"a">>}, duration \in {0, 1}, skills \in {<<>>, <<"q">>},
     phases \in {<<>>, <<"2", "-", "1">>}}

\* at most MaxKindClients clients, MaxKindRows workers and MaxKindRows tasks
InitKinds ==
  \E c \in SeqsUpTo(KindClients, MaxKindClients) :
    \E w \in SeqsUpTo(KindWorkers, MaxKindRows) :
      \E t \in SeqsUpTo(KindTasks, MaxKindRows) : Rendered(c, w, t)

SpecKinds == InitKinds /\ [][RunValidation]_vars

\* Home.handleApiKeySet: the key typed in the settings, '' to remove it
HandleApiKeySet(newApiKey) ==
  /\ mounted
  /\ advisory = NoCall
  /\ apiKey' = newApiKey
  /\ UNCHANGED <<heap, clients, workers, tasks, validationErrors, validated, crashed,
                 searchResults, pendingSearch, alert, exported, nEvents, mounted, advisory,
                 priorities, activePreset>>

\* what model.generateContent does, for the values a parsed text may denote
\* (value is read of a parsed reply only)
Replies(values) ==
  [kind : {"rejected", "unparseable"}, value : {CHOOSE v \in values : TRUE}]
  \cup [kind : {"parsed"}, value : values]

\* the headers of the first row of an uploaded file
HeaderTexts(entityType) ==
  {Chars(expectedFields(entityType)[1]), toLowerCase(Chars(expectedFields(entityType)[1])),
   <<"i", "d">>, <<"N", "a", "m", "e">>, <<"x">>}

\* an AIService method has been called, for the first time in the session,
\* with input and has returned value
Returns(feature, reply, input, value) ==
  /\ mounted
  /\ advisory = NoCall
  /\ advisory' = Called(feature, reply, input, FALSE, value)
  /\ UNCHANGED <<heap, clients, workers, tasks, validationErrors, validated, crashed,
                 searchResults, pendingSearch, alert, exported, nEvents, mounted, apiKey,
                 priorities, activePreset>>

\* an AIService method has been called and throwIfNotConfigured has thrown:
\* the caller's catch block hands the error to Home.handleAIFeatureError
Throws(feature, reply) ==
  /\ mounted
  /\ advisory = NoCall
  /\ advisory' = Called(feature, reply, <<>>, TRUE, <<>>)
  /\ alert' = "requires a Gemini API key"
  /\ UNCHANGED <<heap, clients, workers, tasks, validationErrors, validated, crashed,
                 searchResults, pendingSearch, exported, nEvents, mounted, apiKey,
                 priorities, activePreset>>

\* DataService.parseFile calls aiService.parseAndMapHeaders
MapHeaders ==
  \E e \in EntityTypes : \E headers \in SeqsUpTo(HeaderTexts(e), MaxHeaders) :
    \E reply \in Replies({[header \in Range(headers) |-> Chars(expectedFields(e)[2])]}) :
      Returns("parseAndMapHeaders", reply,
              [headers |-> headers, fields |-> map(Chars, expectedFields(e))],
              parseAndMapHeaders(headers, map(Chars, expectedFields(e)), reply))

\* the queries typed into the search box
Queries == {<<"c", "0", "0", "1">>, <<"R", "e", "a", "c", "t">>, <<"\"", ":", "3">>, <<"z", "z">>}

\* SearchComponent.handleSearch calls aiService.searchData
SearchData ==
  \E e \in EntityTypes : \E query \in Queries :
    \E reply \in Replies(SUBSET (0..1)) :
      Returns("searchData", reply,
              [query |-> query, data |-> RowsIn(heap, e, Collection(e)), entityType |-> e],
              searchData(query, RowsIn(heap, e, Collection(e)), e, reply))

\* RuleBuilder.handleNaturalLanguageSubmit calls aiService.convertToRule
ConvertToRule ==
  \E reply \in Replies({NullRule, [isNull |-> FALSE, type |-> ""],
                         [isNull |-> FALSE, type |-> "coRun"]}) :
    IF throwIfNotConfigured THEN Throws("convertToRule", reply)
    ELSE Returns("convertToRule", reply, <<>>, convertToRule(reply))

\* ValidationSummary.handleGetSuggestion calls aiService.suggestCorrections
\* for a finding of the report
SuggestCorrections ==
  \E n \in 1..Len(validationErrors) :
    \E reply \in Replies({{}, {[row |-> validationErrors[n].row,
                                 field |-> validationErrors[n].column,
                                 value |-> Num(5)]}}) :
      IF throwIfNotConfigured THEN Throws("suggestCorrections", reply)
      ELSE Returns("suggestCorrections", reply, <<>>, suggestCorrections(reply))

\* the mounted page with the parsed rows of one file each, validated
InitAdvisory ==
  \E c \in ParsedFiles("clients") : \E w \in ParsedFiles("workers") :
    \E k \in ParsedFiles("tasks") : Rendered(c, w, k)

NextAdvisory ==
  \/ RunValidation
  \/ \E newApiKey \in {<<>>, <<"k">>} : HandleApiKeySet(newApiKey)
  \/ MapHeaders
  \/ SearchData
  \/ ConvertToRule
  \/ SuggestCorrections

SpecAdvisory == InitAdvisory /\ [][NextAdvisory]_vars

(***************************************************************************)
(* PriorityManager.  The weights are integers: the inputs hand             *)
(* parseInt(e.target.value) to handleWeightChange, which clamps to 0..100. *)
(* The handlers write to row objects no later render reads again (the      *)
(* presets are built anew by every render), so a list of records will do.  *)
(***************************************************************************)
Priority(name, weight, description) ==
  [name |-> name, weight |-> weight, description |-> description]

defaultPriorities ==
  << Priority("Client Priority Level", 30, "Higher priority clients get preference"),
     Priority("Task Duration", 20, "Shorter tasks may be prioritized"),
     Priority("Worker Qualification", 25, "Higher qualified workers for complex tasks"),
     Priority("Phase Preference", 15, "Tasks running in preferred phases"),
     Priority("Load Distribution", 10, "Even distribution across workers") >>

PresetNames == {"maximize-fulfillment", "fair-distribution", "minimize-workload"}

presets(presetName) ==
  CASE presetName = "maximize-fulfillment" ->
         << Priority("Client Priority Level", 40, "Higher priority clients get preference"),
            Priority("Task Duration", 30, "Complete more tasks quickly"),
            Priority("Worker Qualification", 20, "Match skills efficiently"),
            Priority("Phase Preference", 10, "Phase timing consideration"),
            Priority("Load Distribution", 0, "Fairness not prioritized") >>
    [] presetName = "fair-distribution" ->
         << Priority("Load Distribution", 40, "Even workload across all workers"),
            Priority("Worker Qualification", 20, "Balanced skill utilization"),
            Priority("Client Priority Level", 20, "Some priority consideration"),
            Priority("Task Duration", 10, "Minor duration consideration"),
            Priority("Phase Preference", 10, "Minor phase consideration") >>
    [] presetName = "minimize-workload" ->
         << Priority("Load Distribution", 35, "Minimize total workload"),
            Priority("Task Duration", 30, "Prefer shorter tasks"),
            Priority("Worker Qualification", 15, "Efficient skill matching"),
            Priority("Phase Preference", 15, "Optimize phase scheduling"),
            Priority("Client Priority Level", 5, "Lower priority consideration") >>

\* priorities.reduce((sum, p) => sum + p.weight, 0) over the first n entries
RECURSIVE reduceWeight(_, _)
reduceWeight(list, n) ==
  IF n = 0 THEN 0 ELSE reduceWeight(list, n - 1) + list[n].weight

totalWeight(list) == reduceWeight(list, Len(list))

\* the weight and total, of 0..100 and 1..500, for which weight * 100 / total
\* is an integer and a half while the double (weight / total) * 100 lies just
\* below it (57.49999999999999 for 23 of 40)
BelowHalf ==
  {<<23, 40>>, <<46, 80>>, <<69, 120>>, <<92, 160>>, <<29, 200>>, <<57, 200>>, <<58, 400>>}

\* Math.round((weight / total) * 100): Math.round rounds a half upwards
RoundedPercent(weight, total) ==
  IF <<weight, total>> \in BelowHalf
  THEN (200 * weight + total) \div (2 * total) - 1
  ELSE (200 * weight + total) \div (2 * total)

\* priorities.map(p => ({...p, weight: Math.round((p.weight / total) * 100)}))
normalized(list, total) ==
  [i \in 1..Len(list) |-> [list[i] EXCEPT !.weight = RoundedPercent(list[i].weight, total)]]

\* onPrioritiesChange and setActivePreset: nothing else of the page changes
SetPriorities(newPriorities, preset) ==
  /\ mounted
  /\ priorities' = newPriorities
  /\ activePreset' = preset
  /\ UNCHANGED <<heap, clients, workers, tasks, validationErrors, validated, crashed,
                 searchResults, pendingSearch, alert, exported, mounted, apiKey, advisory>>

\* a click or an input in the rendered PriorityManager
WeightEvent ==
  /\ Len(priorities) > 0
  /\ nEvents < MaxWeightEvents
  /\ nEvents' = nEvents + 1

MathMax(a, b) == IF a > b THEN a ELSE b

MathMin(a, b) == IF a < b THEN a ELSE b

\* the render of PriorityManager with an empty list
RenderPriorityManager ==
  /\ Len(priorities) = 0
  /\ SetPriorities(defaultPriorities, activePreset)
  /\ UNCHANGED nEvents

\* PriorityManager.handleWeightChange
HandleWeightChange(index, newWeight) ==
  /\ WeightEvent
  /\ index < Len(priorities)
  /\ SetPriorities([priorities EXCEPT ![index + 1].weight = MathMax(0, MathMin(100, newWeight))],
                   "custom")

\* PriorityManager.applyPreset
ApplyPreset(presetName) ==
  /\ WeightEvent
  /\ SetPriorities(presets(presetName), presetName)

\* PriorityManager.normalizeWeights
NormalizeWeights ==
  /\ WeightEvent
  /\ IF totalWeight(priorities) = 0
     THEN SetPriorities(priorities, activePreset)
     ELSE SetPriorities(normalized(priorities, totalWeight(priorities)), activePreset)

\* the values typed into the number input or set with the slider
WeightInputs == {-5, 23, 120}

\* the weights the list holds after earlier inputs
EarlierWeights == {0, 1, 17, 23}

\* the mounted page with no priority list yet, or with the list of the
\* default names and earlier weights
InitPriorities ==
  \/ Rendered(<<>>, <<>>, <<>>)
  \/ \E weights \in [1..Len(defaultPriorities) -> EarlierWeights] :
       RenderedWith(<<>>, <<>>, <<>>,
                    [i \in 1..Len(defaultPriorities) |->
                       [defaultPriorities[i] EXCEPT !.weight = weights[i]]])

WeightChange ==
  \E index \in 0..(Len(priorities) - 1) : \E newWeight \in WeightInputs :
    HandleWeightChange(index, newWeight)

Preset == \E presetName \in PresetNames : ApplyPreset(presetName)

NextPriorities ==
  \/ RenderPriorityManager
  \/ WeightChange
  \/ Preset
  \/ NormalizeWeights

SpecPriorities == InitPriorities /\ [][NextPriorities]_vars

(***************************************************************************)
(* Properties.                                                             *)
(***************************************************************************)
\* the row records of entityType's collection
Rows(entityType) == RowsIn(heap, entityType, Collection(entityType))

IdColumn(entityType) ==
  CASE entityType = "clients" -> "ClientID"
    [] entityType = "workers" -> "WorkerID"
    [] entityType = "tasks" -> "TaskID"

\* the findings of a type in the report for one row of an entity
FindingsOn(type, entityType, rowIndex) ==
  SelectSeq(validationErrors,
            LAMBDA f : f.type = type /\ f.entity = entityType /\ f.row = rowIndex)

\* C1: for each collection and each identifier value that appears in k rows,
\* the report holds exactly k-1 duplicate_id findings for that value: none on
\* the row of the first occurrence and one, on the identifier column, on the
\* row of each later occurrence.
C1_DuplicateCount ==
  validated =>
    \A e \in EntityTypes :
      LET rows == Rows(e)
          Occurrences(i) == {j \in 1..Len(rows) : rows[j][IdColumn(e)] = rows[i][IdColumn(e)]}
          Duplicates(i) ==
            {n \in 1..Len(validationErrors) :
               /\ validationErrors[n].type = "duplicate_id"
               /\ validationErrors[n].entity = e
               /\ validationErrors[n].column = IdColumn(e)
               /\ validationErrors[n].row + 1 \in Occurrences(i)}
      IN \A i \in 1..Len(rows) :
           /\ Cardinality(Duplicates(i)) = Cardinality(Occurrences(i)) - 1
           /\ Len(FindingsOn("duplicate_id", e, i - 1))
                = IF \E j \in Occurrences(i) : j < i THEN 1 ELSE 0

\* three clients share one identifier and the report holds the two findings
C1_Witness ==
  /\ validated
  /\ Len(clients) = 3
  /\ \A i \in 1..3 : Rows("clients")[i].ClientID = Str(<<"a">>)
  /\ Len(FindingsOn("duplicate_id", "clients", 0)) = 0
  /\ Len(FindingsOn("duplicate_id", "clients", 1)) = 1
  /\ Len(FindingsOn("duplicate_id", "clients", 2)) = 1

\* the validator a finding comes from: 1 Client, 2 Worker, 3 Task, 4 Cross-Reference
Group(f) ==
  CASE f.entity = "clients" -> 1
    [] f.entity = "workers" -> 2
    [] f.entity = "tasks" /\ f.type # "skill_coverage" -> 3
    [] OTHER -> 4

FromGroup(g) == SelectSeq(validationErrors, LAMBDA f : Group(f) = g)

\* C2: the report validateAll returns is the Client findings, then the Worker
\* findings, then the Task findings, then the Cross-Reference findings: no
\* finding of a later validator precedes one of an earlier validator, and each
\* validator's findings are in the report as that validator returns them.
C2_ConcatenationOrder ==
  validated =>
    /\ \A i, j \in 1..Len(validationErrors) :
         i < j => Group(validationErrors[i]) <= Group(validationErrors[j])
    /\ FromGroup(1) = validateClients(Rows("clients"), Rows("tasks"))
    /\ FromGroup(2) = validateWorkers(Rows("workers"))
    /\ FromGroup(3) = validateTasks(Rows("tasks"))
    /\ FromGroup(4) = validateCrossReferences(Rows("clients"), Rows("workers"), Rows("tasks"))

\* a report with findings of all four validators
C2_Witness == validated /\ \A g \in 1..4 : FromGroup(g) # <<>>

\* all three collections hold rows and validating them finds no error
ExportPermitted ==
  /\ Len(clients) > 0
  /\ Len(workers) > 0
  /\ Len(tasks) > 0
  /\ LET report == validateAll(Rows("clients"), Rows("workers"), Rows("tasks"))
     IN \A i \in 1..Len(report) : report[i].severity # "error"

\* C4: an export writes its files if and only if all three collections are
\* non-empty and validating the current collections yields no finding of
\* severity error (warnings never refuse it); nothing but an export writes files.
C4_ExportGate ==
  [][/\ HandleExport => (exported' = exported + 1 <=> ExportPermitted)
     /\ HandleExport => (exported' = exported <=> ~ExportPermitted)
     /\ exported' # exported => HandleExport]_vars

\* an export has written its files while the report holds a warning
C4_Witness ==
  /\ exported = 1
  /\ alert = "Files exported successfully!"
  /\ \E i \in 1..Len(validationErrors) : validationErrors[i].severity = "warning"

\* C5: once an upload, a cell edit or a correction has been processed, the
\* report equals validateAll of the current three collections, also when the
\* change leaves all three collections empty.
C5_ReportIsCurrent ==
  (mounted /\ ~crashed) =>
    validationErrors = validateAll(Rows("clients"), Rows("workers"), Rows("tasks"))

\* C6: applying a correction or saving a cell edit leaves every row record of
\* the collection held before the step as it was: the holder of the old
\* collection never sees the new cell value.
C6_OldCollectionUnchanged ==
  [][(ApplyFix \/ CellSave) =>
       \A e \in EntityTypes : \A i \in 1..Len(Collection(e)) :
         Collection(e)[i] \in DOMAIN heap'[e] =>
           heap'[e][Collection(e)[i]] = heap[e][Collection(e)[i]]]_vars

\* C7: applying a correction to an in-bounds row of an entity gives a
\* collection of the same length whose row at the index has the field equal to
\* the new value, whatever the value; the other fields of the row, the other
\* rows and the other two collections are as before.
C7_ApplyCorrectionFrame ==
  [][\A n \in 1..Len(validationErrors) : \A newValue \in FixValues :
       \A e \in {validationErrors[n].entity} : \A rowIndex \in {validationErrors[n].row} :
         \A field \in {validationErrors[n].column} :
          (rowIndex < Len(Collection(e)) /\ HandleApplyFix(e, rowIndex, field, newValue)) =>
            LET before == Rows(e)
                after == Rows(e)'
            IN /\ Len(after) = Len(before)
               /\ after[rowIndex + 1][field] = newValue
               /\ \A other \in Fields(e) \ {field} :
                    after[rowIndex + 1][other] = before[rowIndex + 1][other]
               /\ \A i \in 1..Len(before) : i # rowIndex + 1 => after[i] = before[i]
               /\ \A o \in EntityTypes \ {e} : Rows(o)' = Rows(o)]_vars

\* a correction has put the number 5 into the identifier of a client
C7_Witness ==
  /\ validated
  /\ \E i \in 1..Len(clients) : Rows("clients")[i].ClientID = Num(5)

(***************************************************************************)
(* Integer lists as texts: what the list claims call a range, a JSON-array *)
(* encoding and a comma-separated encoding.  A numeral is a decimal        *)
(* numeral without sign; an integer text is a numeral or "-" and a numeral.*)
(***************************************************************************)
IsNumeral(tok) ==
  /\ tok # <<>>
  /\ \A i \in 1..Len(tok) : tok[i] \in Digits
  /\ Len(tok) > 1 => tok[1] # "0"

RECURSIVE NumeralValue(_)
NumeralValue(tok) ==
  IF tok = <<>> THEN 0
  ELSE 10 * NumeralValue(SubSeq(tok, 1, Len(tok) - 1)) + DigitVal(tok[Len(tok)])

IsIntegerText(tok) ==
  IsNumeral(tok) \/ (tok # <<>> /\ Head(tok) = "-" /\ IsNumeral(Tail(tok)))

IntegerValue(tok) ==
  IF Head(tok) = "-" THEN 0 - NumeralValue(Tail(tok)) ELSE NumeralValue(tok)

\* the text without the spaces it starts with
RECURSIVE DropSpaces(_)
DropSpaces(tok) ==
  IF tok # <<>> /\ Head(tok) = " " THEN DropSpaces(Tail(tok)) ELSE tok

\* the elements of a comma-separated text, the spaces after the commas dropped
Elements(text) ==
  LET parts == split(text, ",")
  IN [i \in 1..Len(parts) |-> IF i = 1 THEN parts[i] ELSE DropSpaces(parts[i])]

\* text is the comma-separated encoding of a non-empty list of integers
IsCommaList(text) ==
  \A i \in 1..Len(Elements(text)) : IsIntegerText(Elements(text)[i])

\* text is the JSON-array encoding of a non-empty list of integers
IsJsonList(text) ==
  /\ Len(text) > 2
  /\ text[1] = "["
  /\ text[Len(text)] = "]"
  /\ IsCommaList(SubSeq(text, 2, Len(text) - 1))

\* the integers that text, an encoding of either form, lists
ListOf(text) ==
  LET elements == Elements(IF text[1] = "[" THEN SubSeq(text, 2, Len(text) - 1) ELSE text)
  IN [i \in 1..Len(elements) |-> IntegerValue(elements[i])]

\* text encodes, in either form, a list of integers of which n are below 1
ListsBelowOne(text, n) ==
  /\ IsCommaList(text) \/ IsJsonList(text)
  /\ Cardinality({i \in 1..Len(ListOf(text)) : ListOf(text)[i] < 1}) = n

\* text is a range "a-b" of two numerals
IsRange(text) ==
  /\ Len(split(text, "-")) = 2
  /\ IsNumeral(split(text, "-")[1])
  /\ IsNumeral(split(text, "-")[2])

RangeStart(text) == NumeralValue(split(text, "-")[1])

RangeEnd(text) == NumeralValue(split(text, "-")[2])

\* text is a comma-separated list of tokens made of digits, letters and
\* spaces, of which one at least is not a numeral
HasNonNumericToken(text) ==
  /\ includes(text, ",")
  /\ \A i \in 1..Len(text) : text[i] \notin {"-", "[", "]"}
  /\ \E i \in 1..Len(split(text, ",")) : ~IsNumeral(trim(split(text, ",")[i]))

\* the text drawn for the one worker's AvailableSlots and the one task's
\* PreferredPhases
SlotsText == Rows("workers")[1].AvailableSlots.s

PhasesText == Rows("tasks")[1].PreferredPhases.s

\* the findings of the report on a column of an entity
FindingsOnColumn(entityType, column) ==
  SelectSeq(validationErrors, LAMBDA f : f.entity = entityType /\ f.column = column)

\* C8: for a task's PreferredPhases, a range "a-b" with a <= b yields no
\* malformed_list finding and a range with a > b exactly one; a JSON array of
\* positive integers yields none; a comma-separated list without hyphen that
\* contains a non-numeric token yields exactly one malformed_list finding.
C8_PreferredPhasesDecoding ==
  (validated /\ Len(tasks) = 1) =>
    LET malformed == Len(FindingsOn("malformed_list", "tasks", 0))
    IN /\ (IsRange(PhasesText) /\ RangeStart(PhasesText) <= RangeEnd(PhasesText))
            => malformed = 0
       /\ (IsRange(PhasesText) /\ RangeStart(PhasesText) > RangeEnd(PhasesText))
            => malformed = 1
       /\ (IsJsonList(PhasesText) /\ ListsBelowOne(PhasesText, 0)) => malformed = 0
       /\ HasNonNumericToken(PhasesText) => malformed = 1

\* C9: every non-empty list of positive integers, one element included, is a
\* legal AvailableSlots value in its JSON-array encoding and in its
\* comma-separated encoding, with or without spaces after the commas: the
\* report holds no finding on the AvailableSlots column.
C9_SlotsEncodingsLegal ==
  (validated /\ Len(workers) = 1 /\ ListsBelowOne(SlotsText, 0)) =>
    FindingsOnColumn("workers", "AvailableSlots") = <<>>

\* C10: an AvailableSlots value that lists integers of which exactly one is
\* below 1 yields exactly one malformed_list finding on the worker's row, in
\* the JSON-array encoding and in the comma-separated encoding.
C10_OneSlotBelowOne ==
  (validated /\ Len(workers) = 1 /\ ListsBelowOne(SlotsText, 1)) =>
    Len(FindingsOn("malformed_list", "workers", 0)) = 1

\* the comma-separated pieces of a text, each as its first and last position
Pieces(text) ==
  {p \in (1..(Len(text) + 1)) \X (0..Len(text)) :
     /\ p[2] >= p[1] - 1
     /\ \A k \in p[1]..p[2] : text[k] # ","
     /\ (p[1] = 1 \/ text[p[1] - 1] = ",")
     /\ (p[2] = Len(text) \/ text[p[2] + 1] = ",")}

\* the tag a piece holds: trimmed and lower-cased
TagAt(text, p) == toLowerCase(trim(SubSeq(text, p[1], p[2])))

\* some worker row lists the tag among its skills
Listed(workerRows, tag) ==
  \E i \in 1..Len(workerRows) :
    \E p \in Pieces(workerRows[i].Skills.s) : TagAt(workerRows[i].Skills.s, p) = tag

\* the pieces of a required-skills text that hold a tag no worker lists
Uncovered(workerRows, required) ==
  {p \in Pieces(required) :
     TagAt(required, p) # <<>> /\ ~Listed(workerRows, TagAt(required, p))}

\* the skill_coverage findings of a report
CoverageFindings(report) == SelectSeq(report, LAMBDA f : f.type = "skill_coverage")

\* C11: the report holds, for every task row, as many skill_coverage findings
\* on that row as the row's required-skills list has non-empty tags (trimmed,
\* lower-cased) that no worker lists (trimmed, lower-cased); each is a warning
\* on the column RequiredSkills of the tasks for such a tag, and a tag some
\* worker lists in any letter case has none.
C11_SkillCoverage ==
  validated =>
    /\ \A i \in 1..Len(tasks) :
         Len(FindingsOn("skill_coverage", "tasks", i - 1))
           = Cardinality(Uncovered(Rows("workers"), Rows("tasks")[i].RequiredSkills.s))
    /\ \A n \in 1..Len(validationErrors) :
         validationErrors[n].type = "skill_coverage" =>
           /\ validationErrors[n].entity = "tasks"
           /\ validationErrors[n].column = "RequiredSkills"
           /\ validationErrors[n].severity = "warning"
           /\ validationErrors[n].row < Len(tasks)
           /\ validationErrors[n].message.arg # <<>>
           /\ ~Listed(Rows("workers"), validationErrors[n].message.arg)
           /\ \E p \in Pieces(Rows("tasks")[validationErrors[n].row + 1].RequiredSkills.s) :
                TagAt(Rows("tasks")[validationErrors[n].row + 1].RequiredSkills.s, p)
                  = validationErrors[n].message.arg

\* the task requires A and b, the one worker offers a: one warning, for b
C11_Witness ==
  /\ validated
  /\ Len(workers) = 1
  /\ Rows("workers")[1].Skills = Str(<<"a">>)
  /\ Rows("tasks")[1].RequiredSkills = Str(<<"A", ",", "b">>)
  /\ Len(CoverageFindings(validationErrors)) = 1
  /\ validationErrors[1].message.arg = <<"b">>

\* the tags a skills text holds
TagsOf(text) == {TagAt(text, p) : p \in Pieces(text)} \ {<<>>}

\* the skill_coverage findings of a report that name the tag
CoverageOf(report, tag) ==
  SelectSeq(report, LAMBDA f : f.type = "skill_coverage" /\ f.message.arg = tag)

\* the step adds one worker row behind the rows the collection held
WorkerAdded ==
  /\ validated
  /\ validated'
  /\ Len(workers') = Len(workers) + 1
  /\ SubSeq(Rows("workers")', 1, Len(workers)) = Rows("workers")
  /\ tasks' = tasks
  /\ Rows("tasks")' = Rows("tasks")

\* C12: when the one task requires one tag and no worker lists it, the report
\* is exactly one skill_coverage warning and no error; and when a worker is
\* added and validation has run again, the new report holds no skill_coverage
\* warning for a tag the added worker lists in any letter case and, for every
\* tag, at most as many skill_coverage warnings as the report before.
C12_AddedWorkerCovers ==
  /\ [](validated =>
         \A i \in 1..Len(tasks) :
           \A required \in {Rows("tasks")[i].RequiredSkills.s} :
             (Len(tasks) = 1 /\ Cardinality(Pieces(required)) = 1
              /\ Cardinality(Uncovered(Rows("workers"), required)) = 1)
               => /\ Len(validationErrors) = 1
                  /\ validationErrors[1].type = "skill_coverage"
                  /\ validationErrors[1].severity = "warning"
                  /\ validationErrors[1].message.arg \in TagsOf(required))
  /\ [][WorkerAdded =>
          \A added \in {Rows("workers")'[Len(workers')].Skills.s} :
            /\ \A tag \in TagsOf(added) : CoverageOf(validationErrors', tag) = <<>>
            /\ \A n \in 1..Len(validationErrors') :
                 validationErrors'[n].type = "skill_coverage" =>
                   validationErrors'[n] \in Range(validationErrors)
            /\ Len(CoverageFindings(validationErrors'))
                 <= Len(CoverageFindings(validationErrors))]_vars

\* the task requires a, worker a offers b, and worker b with skill A has been
\* added: the warning of the first report is gone
C12_Witness ==
  /\ validated
  /\ nEvents = 1
  /\ Len(workers) = 2
  /\ Rows("tasks")[1].RequiredSkills = Str(<<"a">>)
  /\ Rows("workers")[1].Skills = Str(<<"b">>)
  /\ Rows("workers")[2].Skills = Str(<<"A">>)
  /\ validationErrors = <<>>


\* the pieces of a RequestedTaskIDs text that hold, trimmed, a non-empty
\* identifier that is the TaskID of no task row
UnknownRequests(taskRows, requested) ==
  {p \in Pieces(requested) :
     /\ trim(SubSeq(requested, p[1], p[2])) # <<>>
     /\ \A k \in 1..Len(taskRows) :
          taskRows[k].TaskID # Str(trim(SubSeq(requested, p[1], p[2])))}

\* the client rows that request a task that is not there
Dangling(clientRows, taskRows) ==
  {i \in 1..Len(clientRows) :
     UnknownRequests(taskRows, clientRows[i].RequestedTaskIDs.s) # {}}

\* the step removes row r (one-based) of the client collection, the only row
\* that requests a task that is not there, and validateAll has run again
DanglingClientRemoved(r) ==
  /\ validated
  /\ validated'
  /\ r \in 1..Len(clients)
  /\ Dangling(Rows("clients"), Rows("tasks")) = {r}
  /\ Rows("clients")' = RemoveAt(Rows("clients"), r)
  /\ Rows("workers")' = Rows("workers")
  /\ Rows("tasks")' = Rows("tasks")
  /\ Len(clients') + Len(workers') + Len(tasks') > 0

\* what the claims compare of a finding
Key(f) == <<f.type, f.entity, f.row, f.column>>

Keys(report) == {Key(report[n]) : n \in 1..Len(report)}

\* C13 as stated: when exactly one client row requests a task that is not
\* there and that row is removed, the new report has no unknown_reference
\* finding, every other finding of the old report is in the new report with
\* the same kind, entity, row index and column, and no finding is added.
C13_OtherFindingsUnchanged ==
  [][\A r \in 1..Len(clients) :
       DanglingClientRemoved(r) =>
         /\ \A n \in 1..Len(validationErrors') :
              validationErrors'[n].type # "unknown_reference"
         /\ \A n \in 1..Len(validationErrors) :
              ~(validationErrors[n].type = "unknown_reference"
                /\ validationErrors[n].entity = "clients"
                /\ validationErrors[n].row = r - 1)
                => Key(validationErrors[n]) \in Keys(validationErrors')
         /\ Keys(validationErrors') \subseteq Keys(validationErrors)]_vars

\* the finding f of the old report is gone once client row r is removed: it
\* is on that row, or it is the duplicate_id finding of a later row whose
\* ClientID no other earlier row holds
GoneWith(f, clientRows, r) ==
  /\ f.entity = "clients"
  /\ \/ f.row = r - 1
     \/ /\ f.type = "duplicate_id"
        /\ f.row > r - 1
        /\ \A k \in 1..f.row : clientRows[k].ClientID = clientRows[f.row + 1].ClientID => k = r

\* the finding f once client row r is removed: on a later client row its row
\* index is one less
Shifted(f, r) ==
  IF f.entity = "clients" /\ f.row > r - 1 THEN [f EXCEPT !.row = f.row - 1] ELSE f

\* the old report once client row r is removed
AfterRemoval(report, clientRows, r) ==
  map(LAMBDA f : Shifted(f, r),
      SelectSeq(report, LAMBDA f : ~GoneWith(f, clientRows, r)))

\* C13, amended: when exactly one client row requests a task that is not
\* there and that row is removed, the old report holds an unknown_reference
\* finding on that row and the new report holds none; the new report is the
\* old one without the findings of the removed row and without the
\* duplicate_id findings of later rows whose ClientID only the removed row
\* held before, in the same order, the findings of later client rows with
\* their row index lowered by one and all other findings unchanged.
C13_RemovalShiftsRows ==
  [][\A r \in 1..Len(clients) :
       DanglingClientRemoved(r) =>
         /\ FindingsOn("unknown_reference", "clients", r - 1) # <<>>
         /\ \A n \in 1..Len(validationErrors') :
              validationErrors'[n].type # "unknown_reference"
         /\ validationErrors' = AfterRemoval(validationErrors, Rows("clients"), r)]_vars

\* a client row has been removed and the two clients left share their
\* ClientID: the second one's duplicate_id finding is on row 1
C13_Witness ==
  /\ validated
  /\ nEvents = 1
  /\ Len(clients) = 2
  /\ Rows("clients")[1].ClientID = Rows("clients")[2].ClientID
  /\ Len(validationErrors) = 1
  /\ Key(validationErrors[1]) = <<"duplicate_id", "clients", 1, "ClientID">>


\* the kinds of the findings of a report
KindsOf(report) == {report[n].type : n \in 1..Len(report)}

\* C14: every finding of the report is a warning exactly when its kind is
\* skill_coverage; a finding of kind duplicate_id, missing_required,
\* out_of_range, unknown_reference, malformed_json or malformed_list is an
\* error, and there is no other kind and no other severity.
C14_SeverityByKind ==
  validated =>
    \A n \in 1..Len(validationErrors) :
      /\ validationErrors[n].severity \in {"error", "warning"}
      /\ validationErrors[n].severity = "warning" <=> validationErrors[n].type = "skill_coverage"
      /\ validationErrors[n].type \in
           {"duplicate_id", "missing_required", "out_of_range", "unknown_reference",
            "malformed_json", "malformed_list"}
           => validationErrors[n].severity = "error"
      /\ validationErrors[n].type \in
           {"duplicate_id", "missing_required", "out_of_range", "unknown_reference",
            "malformed_json", "malformed_list", "skill_coverage"}

\* a report that holds findings of all seven kinds
C14_Witness ==
  /\ validated
  /\ KindsOf(validationErrors) =
       {"duplicate_id", "missing_required", "out_of_range", "unknown_reference",
        "malformed_json", "malformed_list", "skill_coverage"}


\* the report is what validateAll returned for the collections of the state
\* (the validation effect leaves the report alone when all three are empty)
ReportReturned == validated /\ Len(clients) + Len(workers) + Len(tasks) > 0

\* C15: in the report validateAll returns, every client row has as many
\* unknown_reference findings as its RequestedTaskIDs has comma-separated
\* pieces that hold, trimmed, a non-empty identifier that is the TaskID of no
\* task row; each such finding is on the column RequestedTaskIDs of the
\* clients and names such an identifier, and a row whose requests all match
\* has none.
C15_UnknownReferences ==
  ReportReturned =>
    /\ \A i \in 1..Len(clients) :
         Len(FindingsOn("unknown_reference", "clients", i - 1))
           = Cardinality(UnknownRequests(Rows("tasks"), Rows("clients")[i].RequestedTaskIDs.s))
    /\ \A n \in 1..Len(validationErrors) :
         validationErrors[n].type = "unknown_reference" =>
           /\ validationErrors[n].entity = "clients"
           /\ validationErrors[n].column = "RequestedTaskIDs"
           /\ validationErrors[n].row < Len(clients)
           /\ \E p \in UnknownRequests(Rows("tasks"),
                     Rows("clients")[validationErrors[n].row + 1].RequestedTaskIDs.s) :
                \A requested \in {Rows("clients")[validationErrors[n].row + 1].RequestedTaskIDs.s} :
                  trim(SubSeq(requested, p[1], p[2])) = validationErrors[n].message.arg

\* the client requests "a, b" and only task a is there: one finding, for b
C15_Witness ==
  /\ validated
  /\ Len(clients) = 1
  /\ Rows("clients")[1].RequestedTaskIDs = Str(<<"a", ",", " ", "b">>)
  /\ Len(tasks) = 1
  /\ Rows("tasks")[1].TaskID = Str(<<"a">>)
  /\ Len(validationErrors) = 1
  /\ Key(validationErrors[1]) = <<"unknown_reference", "clients", 0, "RequestedTaskIDs">>
  /\ validationErrors[1].message.arg = <<"b">>


\* C17: a call of an advisory feature made while the service is not
\* configured raises no error to its caller and returns the fallback: header
\* mapping the string-match mapping, search the plain substring matches, rule
\* conversion no rule, correction suggestion the empty suggestion set.
C17_FallbacksReturn ==
  (advisory.feature # "none" /\ ~advisory.configured) =>
    /\ ~advisory.threw
    /\ advisory.feature = "parseAndMapHeaders" =>
         advisory.value = StringMatchMapping(advisory.input.headers, advisory.input.fields)
    /\ advisory.feature = "searchData" =>
         advisory.value = TextSearch(advisory.input.query, advisory.input.data,
                                     advisory.input.entityType)
    /\ advisory.feature = "convertToRule" => advisory.value = NullRule
    /\ advisory.feature = "suggestCorrections" => advisory.value = {}

\* C18: when the service is not configured, or the header-mapping call is
\* rejected, or its text does not parse, parseAndMapHeaders returns the
\* string-match mapping: each header mapped to the first expected field that
\* matches it, or to itself when none does.
C18_FailureFallsBackToStringMatch ==
  (/\ advisory.feature = "parseAndMapHeaders"
   /\ (~advisory.configured \/ advisory.reply \in {"rejected", "unparseable"})) =>
    advisory.value = StringMatchMapping(advisory.input.headers, advisory.input.fields)



\* C19: after a correction with any proposed value, of any type, is applied
\* to an in-bounds cell, the validation pass that follows runs to completion:
\* validateAll never ends with an exception.
C19_ValidationCompletesAfterFix ==
  [][\A n \in 1..Len(validationErrors) : \A newValue \in FixValues :
       (/\ validationErrors[n].row < Len(Collection(validationErrors[n].entity))
        /\ HandleApplyFix(validationErrors[n].entity, validationErrors[n].row,
                          validationErrors[n].column, newValue)) =>
         ~crashed']_vars

\* C20: after "Normalize to 100%" on a priority list whose weights have a
\* total greater than 0, the weights sum to exactly 100; when the total is 0
\* the priority list is left unchanged.
C20_NormalizedTotal ==
  [][NormalizeWeights =>
       IF totalWeight(priorities) > 0
       THEN totalWeight(priorities') = 100
       ELSE priorities' = priorities]_vars

\* the elements of the array a PreferredPhases cell parses to that are no
\* integer or are below 1
BadElements(parsed) ==
  {i \in 1..Len(parsed.val.items) :
     ~isInteger(parsed.val.items[i]) \/ parsed.val.items[i].n < 1}

\* C21: a task whose PreferredPhases parses as a JSON array with an element
\* that is no integer or is below 1 has a malformed_list finding on its row.
C21_ArrayElementsChecked ==
  (/\ validated
   /\ Len(tasks) = 1
   /\ PhasesParsedAsArray(Rows("tasks")[1].PreferredPhases)
   /\ BadElements(JSONparseCell(Rows("tasks")[1].PreferredPhases)) # {}) =>
    FindingsOn("malformed_list", "tasks", 0) # <<>>

\* tok, trimmed, is a non-empty run of digits
IsDigits(tok) == tok # <<>> /\ \A i \in 1..Len(tok) : tok[i] \in Digits

\* text splits on the hyphen into exactly two integer tokens, start <= end
IsOrderedRange(text) ==
  /\ Len(split(text, "-")) = 2
  /\ IsDigits(trim(split(text, "-")[1]))
  /\ IsDigits(trim(split(text, "-")[2]))
  /\ parseInt(trim(split(text, "-")[1]))[1] <= parseInt(trim(split(text, "-")[2]))[1]

\* C22: a PreferredPhases value that is no JSON array and contains a hyphen
\* gets no finding if and only if it splits on the hyphen into exactly two
\* integer tokens with start <= end; in every other case the task row gets
\* exactly one malformed_list finding.
C22_RangeAcceptedIffTwoOrderedIntegers ==
  (/\ validated
   /\ Len(tasks) = 1
   /\ ~PhasesParsedAsArray(Rows("tasks")[1].PreferredPhases)
   /\ includes(PhasesText, "-")) =>
    IF IsOrderedRange(PhasesText)
    THEN FindingsOnColumn("tasks", "PreferredPhases") = <<>>
    ELSE Len(FindingsOn("malformed_list", "tasks", 0)) = 1

\* text is a comma-separated list of integers of which one at least is below 1
ListsIntegersBelowOne(text) ==
  /\ IsCommaList(text)
  /\ \E i \in 1..Len(ListOf(text)) : ListOf(text)[i] < 1

\* C23: a PreferredPhases value that is a comma-separated list of integers
\* with at least one token below 1 has a malformed_list finding on its row.
C23_CommaListBelowOne ==
  (validated /\ Len(tasks) = 1 /\ ListsIntegersBelowOne(PhasesText)) =>
    FindingsOn("malformed_list", "tasks", 0) # <<>>

\* the place of a finding in the order of the checks on one row: duplicate
\* identifier, required fields, numeric ranges, then the content checks
Stage(f) ==
  CASE f.type = "duplicate_id" -> 1
    [] f.type = "missing_required" -> 2
    [] f.column \in {"PriorityLevel", "MaxLoadPerPhase", "Duration", "MaxConcurrent"} -> 3
    [] f.column \in {"RequestedTaskIDs", "AvailableSlots", "PreferredPhases"} -> 4
    [] f.column = "AttributesJSON" -> 5
    [] OTHER -> 6

\* the findings of the validator of an entity, in the order of the report
ValidatorFindings(entityType) ==
  SelectSeq(validationErrors,
            LAMBDA f : f.entity = entityType /\ f.type # "skill_coverage")

\* list is ordered by row and, within a row, by the stage of the check
OrderedByRowAndStage(list) ==
  \A m \in 1..Len(list) : \A n \in (m + 1)..Len(list) :
    \/ list[m].row < list[n].row
    \/ list[m].row = list[n].row /\ Stage(list[m]) <= Stage(list[n])

\* C24: in the findings of each entity validator the findings of row i come
\* before those of row j for i < j, and within a row they come in the order
\* duplicate_id, missing_required, numeric range, content checks (requested
\* tasks then attributes JSON; available slots; preferred phases).
C24_FindingOrder ==
  ReportReturned => \A e \in EntityTypes : OrderedByRowAndStage(ValidatorFindings(e))

\* the out_of_range findings of the report on a cell
OutOfRangeOn(entityType, rowIndex, column) ==
  SelectSeq(validationErrors,
            LAMBDA f : /\ f.type = "out_of_range" /\ f.entity = entityType
                       /\ f.row = rowIndex /\ f.column = column)

\* one out_of_range finding on the cell if violated, none otherwise
OneIff(violated, entityType, rowIndex, column) ==
  Len(OutOfRangeOn(entityType, rowIndex, column)) = IF violated THEN 1 ELSE 0

\* C25: out_of_range is reported on PriorityLevel exactly when a client's
\* priority level is outside 1..5, on MaxLoadPerPhase exactly when a worker's
\* max load is below 1, on Duration and on MaxConcurrent exactly when the
\* task's value is below 1, once per violated field and row, and for no other
\* column or condition.
C25_OutOfRangeExactly ==
  ReportReturned =>
    /\ \A i \in 1..Len(clients) :
         OneIff(Rows("clients")[i].PriorityLevel.n \notin 1..5, "clients", i - 1, "PriorityLevel")
    /\ \A i \in 1..Len(workers) :
         OneIff(Rows("workers")[i].MaxLoadPerPhase.n < 1, "workers", i - 1, "MaxLoadPerPhase")
    /\ \A i \in 1..Len(tasks) :
         /\ OneIff(Rows("tasks")[i].Duration.n < 1, "tasks", i - 1, "Duration")
         /\ OneIff(Rows("tasks")[i].MaxConcurrent.n < 1, "tasks", i - 1, "MaxConcurrent")
    /\ \A n \in 1..Len(validationErrors) :
         validationErrors[n].type = "out_of_range" =>
           <<validationErrors[n].entity, validationErrors[n].column>> \in
             {<<"clients", "PriorityLevel">>, <<"workers", "MaxLoadPerPhase">>,
              <<"tasks", "Duration">>, <<"tasks", "MaxConcurrent">>}

\* the rows of an entity whose identifier is empty
EmptyIdRows(entityType) ==
  {i \in 1..Len(Rows(entityType)) : Rows(entityType)[i][IdColumn(entityType)] = Str(<<>>)}

\* the findings of a type in the report on the identifier of a row
OnIdentifier(type, entityType, i) ==
  SelectSeq(FindingsOn(type, entityType, i - 1),
            LAMBDA f : f.column = IdColumn(entityType))

\* C26: when two or more rows of a collection have an empty identifier, the
\* first of them has a missing_required finding and no duplicate_id finding,
\* and every later one has both a duplicate_id and a missing_required finding
\* on the identifier column.
C26_EmptyIdentifiers ==
  validated =>
    \A e \in EntityTypes :
      Cardinality(EmptyIdRows(e)) >= 2 =>
        \A i \in EmptyIdRows(e) :
          /\ Len(OnIdentifier("missing_required", e, i)) = 1
          /\ Len(OnIdentifier("duplicate_id", e, i)) =
               IF \E j \in EmptyIdRows(e) : j < i THEN 1 ELSE 0

\* three clients, the first and the last without identifier
C26_Witness ==
  /\ validated
  /\ Len(clients) = 3
  /\ EmptyIdRows("clients") = {1, 3}
  /\ Len(OnIdentifier("missing_required", "clients", 1)) = 1
  /\ Len(OnIdentifier("duplicate_id", "clients", 1)) = 0
  /\ Len(OnIdentifier("missing_required", "clients", 3)) = 1
  /\ Len(OnIdentifier("duplicate_id", "clients", 3)) = 1

\* the condition finding f reports holds of the cell it names, in row r
\* (counted from one) of rows
Triggered(f, rows, r, cell) ==
  CASE f.type = "duplicate_id" ->
         /\ f.column = IdColumn(f.entity)
         /\ \E j \in 1..(r - 1) : rows[j][f.column] = cell
    [] f.type = "missing_required" -> ~Truthy(cell)
    [] f.type = "out_of_range" ->
         \/ f.column = "PriorityLevel" /\ cell.n \notin 1..5
         \/ f.column \in {"MaxLoadPerPhase", "Duration", "MaxConcurrent"} /\ cell.n < 1
         \/ f.column = "AvailableSlots" /\ cell.s # <<>>
    [] f.type = "malformed_json" -> f.column = "AttributesJSON" /\ cell.s # <<>>
    [] f.type = "malformed_list" ->
         /\ f.column \in {"AvailableSlots", "PreferredPhases"}
         /\ cell.s # <<>>
         /\ ~IsJsonList(cell.s)
    [] f.type = "unknown_reference" ->
         /\ f.column = "RequestedTaskIDs"
         /\ \E p \in UnknownRequests(Rows("tasks"), cell.s) :
              trim(SubSeq(cell.s, p[1], p[2])) = f.message.arg
    [] f.type = "skill_coverage" ->
         /\ f.column = "RequiredSkills"
         /\ \E p \in Uncovered(Rows("workers"), cell.s) : TagAt(cell.s, p) = f.message.arg
    [] OTHER -> FALSE

\* finding f names a cell of the collections and its condition holds there
Addressable(f) ==
  /\ f.entity \in EntityTypes
  /\ f.row \in 0..(Len(Collection(f.entity)) - 1)
  /\ f.column \in Fields(f.entity)
  /\ Triggered(f, Rows(f.entity), f.row + 1, Rows(f.entity)[f.row + 1][f.column])

\* C27: every finding validateAll returns carries an entity of clients,
\* workers, tasks, a zero-based row index within that entity's collection and
\* a column that is a field of the entity, and the condition it reports holds
\* of that row.
C27_FindingsAddressable ==
  ReportReturned => \A n \in 1..Len(validationErrors) : Addressable(validationErrors[n])

\* a report with a finding on the second client row and findings of every kind
C27_Witness ==
  /\ ReportReturned
  /\ \E n \in 1..Len(validationErrors) :
       validationErrors[n].entity = "clients" /\ validationErrors[n].row = 1
  /\ Cardinality(KindsOf(validationErrors)) = 7

\* the cells of entityType's collection that the step changes, for a
\* collection that keeps its length
ChangedCells(entityType) ==
  {cell \in (1..Len(Rows(entityType))) \X Fields(entityType) :
     Rows(entityType)'[cell[1]][cell[2]] # Rows(entityType)[cell[1]][cell[2]]}

\* C28: saving a cell edit in the data grid keeps the number and the order of
\* the rows of every collection and changes one cell of the owning collection
\* and nothing else, also while the grid shows a search result for the entity.
C28_CellSaveFrame ==
  [][CellSave =>
       /\ \A e \in EntityTypes : Len(Rows(e)') = Len(Rows(e))
       /\ Cardinality(UNION {{e} \X ChangedCells(e) : e \in EntityTypes}) <= 1]_vars

\* the report has a finding on column of the row of entityType's collection
\* that is the row object ref
FindingOnRow(entityType, ref, column) ==
  \E n \in 1..Len(validationErrors) :
    /\ validationErrors[n].entity = entityType
    /\ validationErrors[n].column = column
    /\ validationErrors[n].row < Len(Collection(entityType))
    /\ Collection(entityType)[validationErrors[n].row + 1] = ref

\* C29: the data grid marks a displayed cell as erroneous if and only if the
\* report has a finding for that entity, that column and the collection row
\* the displayed cell shows, also while the grid shows a search result whose
\* display positions differ from the collection's row indices.
C29_MarkedCellsHaveFindings ==
  (mounted /\ ~crashed) =>
    \A e \in EntityTypes : \A rowIndex \in 0..(Len(getCurrentData(e)) - 1) :
      \A column \in Fields(e) :
        hasErrorsForCell(e, rowIndex, column)
          <=> FindingOnRow(e, getCurrentData(e)[rowIndex + 1], column)

\* an upload has replaced the collection the pending search was started on:
\* the collection holds none of the row objects the search was given
ReplacedSincePending ==
  /\ pendingSearch.active
  /\ Collection(pendingSearch.entityType) # pendingSearch.data
  /\ Range(Collection(pendingSearch.entityType)) \cap Range(pendingSearch.data) = {}

\* C30: once an upload for an entity has completed, the rows displayed for
\* the entity are the uploaded collection until a new search is issued: a
\* search started before the upload that completes after it does not install
\* results computed from the replaced collection.
C30_StaleSearchDropped ==
  [][(SearchResult /\ ReplacedSincePending) =>
       \A e \in {pendingSearch.entityType} : getCurrentData(e)' = Collection(e)']_vars

====
